---- MODULE Spec2Model ----
(***************************************************************************)
(* Matching and scoring engine of the AI job-candidate matching system:    *)
(* JobProcessingAgent.findMatchingCandidates (merge, profile fetch,        *)
(* scoring loop, ranking) and MatchingGradeTool (sophisticated scorer,     *)
(* fallback scorer).                                                       *)
(*                                                                         *)
(* Numbers are exact rationals <<n, d>> with d > 0; an absent optional     *)
(* number is the empty tuple.  Strings are sequences of one-character      *)
(* strings; an absent or empty string is the empty sequence.               *)
(***************************************************************************)
EXTENDS Integers, Sequences, FiniteSets, TLC

VARIABLES
    db,                  \* ids of the candidate records in PostgreSQL
    maxCandidatesReturn, \* LLM_CONFIG.maxCandidatesReturn
    dualMatchScore,      \* LLM_CONFIG.dualMatchScore
    pc,                  \* position of the matching run
    job,                 \* jobData of the run
    sqlQuery,            \* parameters handed to PostgresQueryTool.queryCandidates
    sqlResults,          \* candidate ids returned by the structured filter
    vectorResults,       \* <<id, vectorScore>> returned by the vector search
    candidateMap,        \* merged records, in Map insertion order
    fullCandidates,      \* ids whose full record was fetched
    candidates,          \* scored results, in scoring order
    topCandidates,       \* returned list
    metadata,            \* returned search metadata
    tool,                \* last direct call of a MatchingGradeTool method
    other,               \* a second findMatchingCandidates invocation: its locals
    ingest,              \* OrchestratorAgent.handleFolderIngestion: its locals and result
    agent                \* CandidateIngestionAgent: candidate rows, vector points, calls of processCV

vars == <<db, maxCandidatesReturn, dualMatchScore, pc, job, sqlQuery, sqlResults,
          vectorResults, candidateMap, fullCandidates, candidates,
          topCandidates, metadata, tool, other, ingest, agent>>

runVars == <<pc, job, sqlQuery, sqlResults, vectorResults, candidateMap,
             fullCandidates, candidates, topCandidates, metadata>>

configVars == <<maxCandidatesReturn, dualMatchScore>>

-----------------------------------------------------------------------------
(* Bounds of the model *)

NumCands == 3
MaxVector == 2
MaxRemovals == 1

-----------------------------------------------------------------------------
(* Numbers *)

Undefined == <<>>

Abs(x) == IF x < 0 THEN -x ELSE x

RECURSIVE GCD(_, _)
GCD(a, b) == IF b = 0 THEN a ELSE GCD(b, a % b)

Rat(n, d) ==
    LET g == GCD(Abs(n), d)
    IN  IF n = 0 THEN <<0, 1>> ELSE <<n \div g, d \div g>>

Int2Rat(n) == <<n, 1>>
RAdd(x, y) == Rat(x[1] * y[2] + y[1] * x[2], x[2] * y[2])
RSub(x, y) == Rat(x[1] * y[2] - y[1] * x[2], x[2] * y[2])
RMul(x, y) == Rat(x[1] * y[1], x[2] * y[2])
RDiv(x, y) == IF y[1] > 0 THEN Rat(x[1] * y[2], x[2] * y[1])
                          ELSE Rat(-(x[1] * y[2]), x[2] * (-y[1]))
RLe(x, y) == x[1] * y[2] <= y[1] * x[2]
RLt(x, y) == x[1] * y[2] < y[1] * x[2]
RMin(x, y) == IF RLe(x, y) THEN x ELSE y
RMax(x, y) == IF RLe(x, y) THEN y ELSE x

\* Math.round: the nearest integer, ties towards +Infinity
MathRound(x) == (2 * x[1] + x[2]) \div (2 * x[2])

\* a JavaScript number used as a condition: absent and 0 are falsy
Truthy(x) == x # Undefined /\ x[1] # 0

-----------------------------------------------------------------------------
(* Strings *)

UpperCase == <<"A", "B", "C", "D", "E", "F", "G", "H", "I", "J", "K", "L", "M",
               "N", "O", "P", "Q", "R", "S", "T", "U", "V", "W", "X", "Y", "Z">>
LowerCase == <<"a", "b", "c", "d", "e", "f", "g", "h", "i", "j", "k", "l", "m",
               "n", "o", "p", "q", "r", "s", "t", "u", "v", "w", "x", "y", "z">>
Digits == {"0", "1", "2", "3", "4", "5", "6", "7", "8", "9"}

LowerChar(c) ==
    IF \E i \in 1..26 : UpperCase[i] = c
    THEN LowerCase[CHOOSE i \in 1..26 : UpperCase[i] = c]
    ELSE c

toLowerCase(s) == [i \in 1..Len(s) |-> LowerChar(s[i])]

IsAlnum(c) == c \in Digits \/ \E i \in 1..26 : LowerCase[i] = c

\* s.toLowerCase().replace(/[^a-z0-9]/g, '')
Normalize(s) == SelectSeq(toLowerCase(s), IsAlnum)

\* s.includes(t)
Includes(s, t) ==
    \E i \in 0..(Len(s) - Len(t)) : SubSeq(s, i + 1, i + Len(t)) = t

Min3(a, b, c) == IF a <= b /\ a <= c THEN a ELSE IF b <= c THEN b ELSE c

\* one row of the edit-distance matrix: row i from row i-1 (prev), where
\* sequence index j+1 holds matrix[i][j]; the tests on v and row only fix
\* the order of evaluation
RECURSIVE LevRow(_, _, _, _, _)
LevRow(a, bch, prev, acc, j) ==
    IF j > Len(a) THEN acc
    ELSE LET v == IF bch = a[j]
                  THEN prev[j]
                  ELSE Min3(prev[j] + 1, acc[j] + 1, prev[j + 1] + 1)
             next == Append(acc, v)
         IN  IF Len(next) > 0 THEN LevRow(a, bch, prev, next, j + 1) ELSE next

RECURSIVE LevRows(_, _, _, _)
LevRows(a, b, prev, i) ==
    IF i > Len(b) THEN prev
    ELSE LET row == LevRow(a, b[i], prev, <<i>>, 1)
         IN  IF Len(row) > 0 THEN LevRows(a, b, row, i + 1) ELSE row

levenshteinDistance(a, b) ==
    LevRows(a, b, [j \in 1..(Len(a) + 1) |-> j - 1], 1)[Len(a) + 1]

-----------------------------------------------------------------------------
(* MatchingGradeTool: static tables *)

defaultWeights ==
    [skillMatch |-> 35, skillProficiency |-> 15, experienceMatch |-> 20,
     locationMatch |-> 10, vectorSimilarity |-> 15, sqlMatch |-> 5]

skillLevelValues ==
    [beginner |-> 1, intermediate |-> 2, advanced |-> 3, expert |-> 4]

\* the variations dictionary of fuzzySkillMatch, each row [base, ...alts]
variations == <<
    <<<<"j", "a", "v", "a", "s", "c", "r", "i", "p", "t">>,
      <<"j", "s">>,
      <<"e", "c", "m", "a", "s", "c", "r", "i", "p", "t">>,
      <<"e", "s", "6">>,
      <<"e", "s", "2", "0", "1", "5">>>>,
    <<<<"t", "y", "p", "e", "s", "c", "r", "i", "p", "t">>,
      <<"t", "s">>>>,
    <<<<"p", "y", "t", "h", "o", "n">>,
      <<"p", "y">>,
      <<"p", "y", "t", "h", "o", "n", "3">>>>,
    <<<<"p", "o", "s", "t", "g", "r", "e", "s", "q", "l">>,
      <<"p", "o", "s", "t", "g", "r", "e", "s">>,
      <<"p", "s", "q", "l">>,
      <<"p", "g", "s", "q", "l">>>>,
    <<<<"m", "o", "n", "g", "o", "d", "b">>,
      <<"m", "o", "n", "g", "o">>>>,
    <<<<"k", "u", "b", "e", "r", "n", "e", "t", "e", "s">>,
      <<"k", "8", "s">>>>,
    <<<<"r", "e", "a", "c", "t">>,
      <<"r", "e", "a", "c", "t", "j", "s">>,
      <<"r", "e", "a", "c", "t", "n", "a", "t", "i", "v", "e">>>>,
    <<<<"a", "n", "g", "u", "l", "a", "r">>,
      <<"a", "n", "g", "u", "l", "a", "r", "j", "s">>,
      <<"n", "g">>>>,
    <<<<"v", "u", "e">>,
      <<"v", "u", "e", "j", "s">>,
      <<"v", "u", "e", "3">>>>,
    <<<<"n", "o", "d", "e">>,
      <<"n", "o", "d", "e", "j", "s">>,
      <<"n", "o", "d", "e", ".", "j", "s">>>>,
    <<<<"a", "w", "s">>,
      <<"a", "m", "a", "z", "o", "n", "w", "e", "b", "s", "e", "r", "v", "i", "c", "e", "s">>,
      <<"a", "m", "a", "z", "o", "n">>>>,
    <<<<"g", "c", "p">>,
      <<"g", "o", "o", "g", "l", "e", "c", "l", "o", "u", "d">>,
      <<"g", "o", "o", "g", "l", "e", "c", "l", "o", "u", "d", "p", "l", "a", "t", "f", "o", "r", "m">>>>,
    <<<<"a", "z", "u", "r", "e">>,
      <<"m", "i", "c", "r", "o", "s", "o", "f", "t", "a", "z", "u", "r", "e">>>>,
    <<<<"s", "q", "l">>,
      <<"m", "y", "s", "q", "l">>,
      <<"m", "s", "s", "q", "l">>,
      <<"t", "s", "q", "l">>>>,
    <<<<"e", "x", "c", "e", "l">>,
      <<"m", "s", "e", "x", "c", "e", "l">>,
      <<"m", "i", "c", "r", "o", "s", "o", "f", "t", "e", "x", "c", "e", "l">>>>,
    <<<<"w", "o", "r", "d">>,
      <<"m", "s", "w", "o", "r", "d">>,
      <<"m", "i", "c", "r", "o", "s", "o", "f", "t", "w", "o", "r", "d">>>>,
    <<<<"p", "o", "w", "e", "r", "p", "o", "i", "n", "t">>,
      <<"m", "s", "p", "o", "w", "e", "r", "p", "o", "i", "n", "t">>,
      <<"p", "p", "t">>>>,
    <<<<"a", "c", "c", "o", "u", "n", "t", "i", "n", "g">>,
      <<"b", "o", "o", "k", "k", "e", "e", "p", "i", "n", "g">>,
      <<"f", "i", "n", "a", "n", "c", "i", "a", "l", "a", "c", "c", "o", "u", "n", "t", "i", "n", "g">>>>,
    <<<<"p", "a", "y", "r", "o", "l", "l">>,
      <<"p", "a", "y", "r", "o", "l", "l", "p", "r", "o", "c", "e", "s", "s", "i", "n", "g">>,
      <<"p", "a", "y", "r", "o", "l", "l", "m", "a", "n", "a", "g", "e", "m", "e", "n", "t">>>>
>>

-----------------------------------------------------------------------------
(* MatchingGradeTool: skill matching *)

VariantHit(v, s) == Includes(s, v) \/ Includes(v, s)

MaxLen(a, b) == IF Len(a) >= Len(b) THEN Len(a) ELSE Len(b)

\* FuzzyNormalized without the variations dictionary
FuzzyNormalizedNoVariations(req, cand) ==
    \/ Includes(req, cand) \/ Includes(cand, req)
    \/ levenshteinDistance(req, cand) <= MaxLen(req, cand) \div 5

\* the three tests of fuzzySkillMatch on the normalized names: containment,
\* a common row of the variations dictionary, edit distance within 20%
FuzzyNormalized(req, cand) ==
    \/ Includes(req, cand) \/ Includes(cand, req)
    \/ \E r \in 1..Len(variations) :
          /\ \E k \in 1..Len(variations[r]) : VariantHit(variations[r][k], req)
          /\ \E k \in 1..Len(variations[r]) : VariantHit(variations[r][k], cand)
    \/ levenshteinDistance(req, cand) <= MaxLen(req, cand) \div 5

fuzzySkillMatch(required, candidate) ==
    FuzzyNormalized(Normalize(required), Normalize(candidate))

\* a JavaScript Map as a sequence of <<key, value>> in insertion order
MapHas(m, k) == \E i \in 1..Len(m) : m[i][1] = k
MapIndex(m, k) == CHOOSE i \in 1..Len(m) : m[i][1] = k
MapGet(m, k) == m[MapIndex(m, k)][2]
MapSet(m, k, v) ==
    IF MapHas(m, k)
    THEN [m EXCEPT ![MapIndex(m, k)] = <<k, v>>]
    ELSE Append(m, <<k, v>>)

RECURSIVE BuildSkillMap(_, _, _)
BuildSkillMap(skills, m, i) ==
    IF i > Len(skills) THEN m
    ELSE BuildSkillMap(skills, MapSet(m, toLowerCase(skills[i].name), skills[i]), i + 1)

\* ProficiencyFromLevel with a years ratio that is not capped
ProficiencyFromLevelUncapped(levelScore, candidateSkill, requiredYears) ==
    IF Truthy(requiredYears) /\ candidateSkill.yearsOfExperience # Undefined
    THEN RAdd(RMul(levelScore, Rat(1, 2)),
              RMul(RMul(RDiv(candidateSkill.yearsOfExperience, requiredYears),
                        Int2Rat(100)),
                   Rat(1, 2)))
    ELSE RAdd(RMul(levelScore, Rat(1, 2)), RMul(levelScore, Rat(1, 2)))

\* levelScore * 0.5, plus the years ratio (capped at 1) * 100 * 0.5 or, with
\* no years to compare, levelScore * 0.5 again
ProficiencyFromLevel(levelScore, candidateSkill, requiredYears) ==
    IF Truthy(requiredYears) /\ candidateSkill.yearsOfExperience # Undefined
    THEN RAdd(RMul(levelScore, Rat(1, 2)),
              RMul(RMul(RMin(Int2Rat(1),
                             RDiv(candidateSkill.yearsOfExperience, requiredYears)),
                        Int2Rat(100)),
                   Rat(1, 2)))
    ELSE RAdd(RMul(levelScore, Rat(1, 2)), RMul(levelScore, Rat(1, 2)))

calculateProficiencyMatch(candidateSkill, requiredYears) ==
    ProficiencyFromLevel(Rat(skillLevelValues[candidateSkill.level] * 100, 4),
                         candidateSkill, requiredYears)

FirstIndex(hits) == CHOOSE i \in hits : \A h \in hits : i <= h

\* the value of the first map entry whose key is a fuzzy match, as <<>> or <<skill>>
FirstFuzzyMatch(candidateSkillMap, hits) ==
    IF hits = {} THEN <<>> ELSE <<candidateSkillMap[FirstIndex(hits)][2]>>

\* the candidate skill chosen for a requirement: <<>> or <<skill>>
FindMatchedSkill(candidateSkillMap, reqSkillLower) ==
    IF MapHas(candidateSkillMap, reqSkillLower)
    THEN <<MapGet(candidateSkillMap, reqSkillLower)>>
    ELSE FirstFuzzyMatch(candidateSkillMap,
             {i \in 1..Len(candidateSkillMap) :
                 fuzzySkillMatch(reqSkillLower, candidateSkillMap[i][1])})

YearsOrZero(years) == IF years = Undefined THEN Int2Rat(0) ELSE years

\* SkillStepWith giving every match, exact or fuzzy, the fuzzy credit
SkillStepWithFlatCredit(acc, req, weight, found, exactMatch) ==
    IF found # <<>>
    THEN [acc EXCEPT
            !.maxSkillPoints = @ + weight * 100,
            !.maxProficiencyPoints = @ + weight * 100,
            !.totalSkillPoints = @ + weight * 80,
            !.totalProficiencyPoints =
                RAdd(@, RMul(Int2Rat(weight),
                             calculateProficiencyMatch(found[1], req.minYearsExperience))),
            !.matchedSkills = Append(@,
                [skill |-> req.skill,
                 candidateLevel |-> found[1].level,
                 required |-> req.required,
                 yearsMatch |-> TRUE])]
    ELSE [acc EXCEPT
            !.maxSkillPoints = @ + weight * 100,
            !.maxProficiencyPoints = @ + weight * 100,
            !.missingRequiredSkills =
                IF req.required THEN Append(@, req.skill) ELSE @,
            !.totalSkillPoints = IF req.required THEN @ ELSE @ + weight * 20]

\* SkillStepWith listing every unmatched requirement as a missing required skill
SkillStepWithAllMissing(acc, req, weight, found, exactMatch) ==
    IF found # <<>>
    THEN [acc EXCEPT
            !.maxSkillPoints = @ + weight * 100,
            !.maxProficiencyPoints = @ + weight * 100,
            !.totalSkillPoints = @ + weight * (IF exactMatch THEN 100 ELSE 80),
            !.totalProficiencyPoints =
                RAdd(@, RMul(Int2Rat(weight),
                             calculateProficiencyMatch(found[1], req.minYearsExperience))),
            !.matchedSkills = Append(@,
                [skill |-> req.skill,
                 candidateLevel |-> found[1].level,
                 required |-> req.required,
                 yearsMatch |-> TRUE])]
    ELSE [acc EXCEPT
            !.maxSkillPoints = @ + weight * 100,
            !.maxProficiencyPoints = @ + weight * 100,
            !.missingRequiredSkills = Append(@, req.skill),
            !.totalSkillPoints = IF req.required THEN @ ELSE @ + weight * 20]

\* the body of the requirement loop on the accumulators, given the weight of
\* the requirement, the chosen skill (found) and whether the map has its name
SkillStepWith(acc, req, weight, found, exactMatch) ==
    IF found # <<>>
    THEN [acc EXCEPT
            !.maxSkillPoints = @ + weight * 100,
            !.maxProficiencyPoints = @ + weight * 100,
            !.totalSkillPoints = @ + weight * (IF exactMatch THEN 100 ELSE 80),
            !.totalProficiencyPoints =
                RAdd(@, RMul(Int2Rat(weight),
                             calculateProficiencyMatch(found[1], req.minYearsExperience))),
            !.matchedSkills = Append(@,
                [skill |-> req.skill,
                 candidateLevel |-> found[1].level,
                 required |-> req.required,
                 yearsMatch |-> \/ ~Truthy(req.minYearsExperience)
                                \/ RLe(req.minYearsExperience,
                                       YearsOrZero(found[1].yearsOfExperience))])]
    ELSE [acc EXCEPT
            !.maxSkillPoints = @ + weight * 100,
            !.maxProficiencyPoints = @ + weight * 100,
            !.missingRequiredSkills =
                IF req.required THEN Append(@, req.skill) ELSE @,
            !.totalSkillPoints = IF req.required THEN @ ELSE @ + weight * 20]

\* SkillStep with required and preferred requirements weighing the same
SkillStepUnweighted(acc, candidateSkillMap, req) ==
    SkillStepWith(acc, req, 1,
                  FindMatchedSkill(candidateSkillMap, toLowerCase(req.skill)),
                  MapHas(candidateSkillMap, toLowerCase(req.skill)))

SkillStep(acc, candidateSkillMap, req) ==
    SkillStepWith(acc, req, IF req.required THEN 2 ELSE 1,
                  FindMatchedSkill(candidateSkillMap, toLowerCase(req.skill)),
                  MapHas(candidateSkillMap, toLowerCase(req.skill)))

RECURSIVE SkillLoop(_, _, _, _)
SkillLoop(acc, candidateSkillMap, jobRequirements, i) ==
    IF i > Len(jobRequirements) THEN acc
    ELSE SkillLoop(SkillStep(acc, candidateSkillMap, jobRequirements[i]),
                   candidateSkillMap, jobRequirements, i + 1)

\* the final percentages, from the accumulators
SkillTotals(acc) ==
    [threw |-> FALSE,
     skillScore |->
         IF acc.maxSkillPoints > 0
         THEN MathRound(Rat(acc.totalSkillPoints * 100, acc.maxSkillPoints))
         ELSE 50,
     proficiencyScore |->
         IF acc.maxProficiencyPoints > 0
         THEN MathRound(RMul(RDiv(acc.totalProficiencyPoints,
                                  Int2Rat(acc.maxProficiencyPoints)),
                             Int2Rat(100)))
         ELSE 50,
     matchedSkills |-> acc.matchedSkills,
     missingRequiredSkills |-> acc.missingRequiredSkills]

\* calculateSkillScores without the early return for a job with no requirements
calculateSkillScoresNoEarlyReturn(candidateSkills, jobRequirements) ==
    IF ~candidateSkills.isArray
    THEN [threw |-> TRUE, skillScore |-> 0, proficiencyScore |-> 0,
          matchedSkills |-> <<>>, missingRequiredSkills |-> <<>>]
    ELSE SkillTotals(SkillLoop(
             [totalSkillPoints |-> 0, totalProficiencyPoints |-> Int2Rat(0),
              maxSkillPoints |-> 0, maxProficiencyPoints |-> 0,
              matchedSkills |-> <<>>, missingRequiredSkills |-> <<>>],
             BuildSkillMap(candidateSkills.items, <<>>, 1), jobRequirements, 1))

\* candidateSkills is [isArray, items]; iterating a value that is no array throws
calculateSkillScores(candidateSkills, jobRequirements) ==
    IF Len(jobRequirements) = 0
    THEN [threw |-> FALSE, skillScore |-> 50, proficiencyScore |-> 50,
          matchedSkills |-> <<>>, missingRequiredSkills |-> <<>>]
    ELSE IF ~candidateSkills.isArray
    THEN [threw |-> TRUE, skillScore |-> 0, proficiencyScore |-> 0,
          matchedSkills |-> <<>>, missingRequiredSkills |-> <<>>]
    ELSE SkillTotals(SkillLoop(
             [totalSkillPoints |-> 0, totalProficiencyPoints |-> Int2Rat(0),
              maxSkillPoints |-> 0, maxProficiencyPoints |-> 0,
              matchedSkills |-> <<>>, missingRequiredSkills |-> <<>>],
             BuildSkillMap(candidateSkills.items, <<>>, 1), jobRequirements, 1))

-----------------------------------------------------------------------------
(* MatchingGradeTool: experience, location, composite score *)

RECURSIVE SumMinYears(_, _)
SumMinYears(requirements, i) ==
    IF i > Len(requirements) THEN Int2Rat(0)
    ELSE RAdd(IF Truthy(requirements[i].minYearsExperience)
              THEN requirements[i].minYearsExperience ELSE Int2Rat(0),
              SumMinYears(requirements, i + 1))

\* x || d
OrDefault(x, d) == IF Truthy(x) THEN x ELSE d

\* the requiredYears that calculateExperienceScore works with
EffectiveRequiredYears(requiredYears, requirements) ==
    IF Truthy(requiredYears) THEN requiredYears
    ELSE IF Len(requirements) > 0
    THEN OrDefault(RDiv(SumMinYears(requirements, 1), Int2Rat(Len(requirements))),
                   Int2Rat(3))
    ELSE Int2Rat(3)

\* ExperienceCurve with the over-qualified piece starting at 100
ExperienceCurveFrom100(diff) ==
    IF RLe(Int2Rat(0), diff) /\ RLe(diff, Int2Rat(3))
    THEN Int2Rat(100)
    ELSE IF RLt(Int2Rat(3), diff) /\ RLe(diff, Int2Rat(7))
    THEN RSub(Int2Rat(100), RMul(RSub(diff, Int2Rat(3)), Int2Rat(5)))
    ELSE IF RLt(Int2Rat(7), diff)
    THEN RMax(Int2Rat(50), RSub(Int2Rat(70), RMul(RSub(diff, Int2Rat(7)), Int2Rat(5))))
    ELSE IF RLe(Int2Rat(-2), diff)
    THEN RAdd(Int2Rat(80), RMul(diff, Int2Rat(10)))
    ELSE RMax(Int2Rat(20), RAdd(Int2Rat(60), RMul(diff, Int2Rat(10))))

ExperienceCurve(diff) ==
    IF RLe(Int2Rat(0), diff) /\ RLe(diff, Int2Rat(3))
    THEN Int2Rat(100)
    ELSE IF RLt(Int2Rat(3), diff) /\ RLe(diff, Int2Rat(7))
    THEN RSub(Int2Rat(90), RMul(RSub(diff, Int2Rat(3)), Int2Rat(5)))
    ELSE IF RLt(Int2Rat(7), diff)
    THEN RMax(Int2Rat(50), RSub(Int2Rat(70), RMul(RSub(diff, Int2Rat(7)), Int2Rat(5))))
    ELSE IF RLe(Int2Rat(-2), diff)
    THEN RAdd(Int2Rat(80), RMul(diff, Int2Rat(10)))
    ELSE RMax(Int2Rat(20), RAdd(Int2Rat(60), RMul(diff, Int2Rat(10))))

calculateExperienceScore(candidateYears, requiredYears, requirements) ==
    ExperienceCurve(RSub(candidateYears,
                         EffectiveRequiredYears(requiredYears, requirements)))

IsSeparator(c) == c \in {",", " "}

\* s.split(/[,\s]+/), without the empty pieces (no empty piece is longer than 2)
RECURSIVE SplitParts(_, _, _, _)
SplitParts(s, i, cur, acc) ==
    IF i > Len(s)
    THEN IF cur = <<>> THEN acc ELSE Append(acc, cur)
    ELSE IF IsSeparator(s[i])
    THEN SplitParts(s, i + 1, <<>>, IF cur = <<>> THEN acc ELSE Append(acc, cur))
    ELSE SplitParts(s, i + 1, Append(cur, s[i]), acc)

Remote == <<"r", "e", "m", "o", "t", "e">>

\* PartsMatch testing containment in one direction only
PartsMatchOneWay(candParts, jobParts) ==
    \E a \in 1..Len(candParts), b \in 1..Len(jobParts) :
        /\ Len(candParts[a]) > 2 /\ Len(jobParts[b]) > 2
        /\ Includes(candParts[a], jobParts[b])

\* a part of one location containing a part of the other, both longer than 2
PartsMatch(candParts, jobParts) ==
    \E a \in 1..Len(candParts), b \in 1..Len(jobParts) :
        /\ Len(candParts[a]) > 2 /\ Len(jobParts[b]) > 2
        /\ \/ Includes(candParts[a], jobParts[b])
           \/ Includes(jobParts[b], candParts[a])

\* the comparison of the two lower-cased locations
CompareLocations(candLoc, jobLoc) ==
    IF Includes(candLoc, jobLoc) \/ Includes(jobLoc, candLoc)
    THEN 100
    ELSE IF PartsMatch(SplitParts(candLoc, 1, <<>>, <<>>),
                       SplitParts(jobLoc, 1, <<>>, <<>>))
    THEN 80
    ELSE 40

calculateLocationScore(candidateLocation, jobLocation) ==
    IF jobLocation = <<>> \/ Includes(toLowerCase(jobLocation), Remote)
    THEN 100
    ELSE IF candidateLocation = <<>>
    THEN 50
    ELSE CompareLocations(toLowerCase(candidateLocation), toLowerCase(jobLocation))

\* NormalizedVectorScore counting an absent similarity as 0
NormalizedVectorScoreZeroDefault(vectorScore) ==
    IF vectorScore # Undefined
    THEN RMin(Int2Rat(100), RMul(vectorScore, Int2Rat(100)))
    ELSE Int2Rat(0)

NormalizedVectorScore(vectorScore) ==
    IF vectorScore # Undefined
    THEN RMin(Int2Rat(100), RMul(vectorScore, Int2Rat(100)))
    ELSE Int2Rat(50)

\* SqlBonus granted whether or not the SQL filter returned the candidate
SqlBonusAlways(sqlMatch) ==
    100

SqlBonus(sqlMatch) ==
    IF sqlMatch THEN 100 ELSE 0

WeightedSum(skillScore, proficiencyScore, experienceScore, locationScore, normalizedVectorScore, sqlBonus, weights) ==
    RAdd(RAdd(RAdd(Int2Rat(skillScore * weights.skillMatch),
                   Int2Rat(proficiencyScore * weights.skillProficiency)),
              RAdd(RMul(experienceScore, Int2Rat(weights.experienceMatch)),
                   Int2Rat(locationScore * weights.locationMatch))),
         RAdd(RMul(normalizedVectorScore, Int2Rat(weights.vectorSimilarity)),
              Int2Rat(sqlBonus * weights.sqlMatch)))

Clamp(x) == IF x > 100 THEN 100 ELSE IF x < 0 THEN 0 ELSE x

\* TotalScore without the division by 100 and without the clamp
TotalScoreUnscaled(weightedSum) == MathRound(weightedSum)

\* the total of the breakdown: Math.round(weighted sum / 100), then clamped
TotalScore(weightedSum) == Clamp(MathRound(RDiv(weightedSum, Int2Rat(100))))

\* 'Excellent match.' and the other overall assessments, by score threshold
Assessment(totalScore) ==
    IF totalScore >= 85 THEN "Excellent match."
    ELSE IF totalScore >= 70 THEN "Good match with some gaps."
    ELSE IF totalScore >= 50 THEN "Moderate match."
    ELSE "Weak match."

RECURSIVE CountRequired(_, _)
CountRequired(matchedSkills, i) ==
    IF i > Len(matchedSkills) THEN 0
    ELSE (IF matchedSkills[i].required THEN 1 ELSE 0)
         + CountRequired(matchedSkills, i + 1)

\* 'Skills: a/b required skills matched.', pushed when b > 0
SkillsPart(requiredMatched, totalRequired) ==
    IF totalRequired > 0
    THEN <<[requiredMatched |-> requiredMatched, totalRequired |-> totalRequired]>>
    ELSE <<>>

\* 'Missing: ...', the first three names and whether more follow
MissingPart(missingRequiredSkills) ==
    IF Len(missingRequiredSkills) > 0
    THEN <<[skills |-> SubSeq(missingRequiredSkills, 1,
                              IF Len(missingRequiredSkills) > 3 THEN 3
                              ELSE Len(missingRequiredSkills)),
            more |-> Len(missingRequiredSkills) > 3]>>
    ELSE <<>>

\* x.toFixed(1) for x >= 0
ToFixed1(x) == Rat(MathRound(RMul(x, Int2Rat(10))), 10)

\* 'Experience: n years (...)' for the difference to the required years
ExperienceAlignment(candidateYears, diff) ==
    IF RLe(Int2Rat(0), diff) /\ RLe(diff, Int2Rat(3))
    THEN [years |-> candidateYears, alignment |-> "meets requirement",
          by |-> Int2Rat(0)]
    ELSE IF RLt(Int2Rat(3), diff)
    THEN [years |-> candidateYears, alignment |-> "overqualified",
          by |-> ToFixed1(diff)]
    ELSE [years |-> candidateYears, alignment |-> "below requirement",
          by |-> ToFixed1(RSub(Int2Rat(0), diff))]

\* the experience statement, pushed when requiredYears is given
ExperiencePart(candidateYears, requiredYears) ==
    IF Truthy(requiredYears)
    THEN <<ExperienceAlignment(candidateYears, RSub(candidateYears, requiredYears))>>
    ELSE <<>>

\* the parts of the reasoning string, each <<>> when it is not pushed
generateReasoning(totalScore, matchedSkills, missingRequiredSkills, candidateYears, requiredYears) ==
    [assessment |-> Assessment(totalScore),
     skills |-> SkillsPart(CountRequired(matchedSkills, 1),
                           CountRequired(matchedSkills, 1) + Len(missingRequiredSkills)),
     missing |-> MissingPart(missingRequiredSkills),
     experience |-> ExperiencePart(candidateYears, requiredYears)]

NoReasoning == [assessment |-> "", skills |-> <<>>, missing |-> <<>>, experience |-> <<>>]

\* the returned breakdown, from the factor scores (sk: calculateSkillScores)
Breakdown(sk, experienceScore, locationScore, normalizedVectorScore, sqlBonus, weights, candidateYears, requiredYears) ==
    IF sk.threw
    THEN [threw |-> TRUE, totalScore |-> 0, skillScore |-> 0,
          proficiencyScore |-> 0, experienceScore |-> Int2Rat(0),
          locationScore |-> 0, vectorScore |-> Int2Rat(0), sqlBonus |-> 0,
          matchedSkills |-> <<>>, missingRequiredSkills |-> <<>>,
          reasoning |-> NoReasoning]
    ELSE [threw |-> FALSE,
          totalScore |->
              TotalScore(WeightedSum(sk.skillScore, sk.proficiencyScore,
                                     experienceScore, locationScore,
                                     normalizedVectorScore, sqlBonus, weights)),
          skillScore |-> sk.skillScore,
          proficiencyScore |-> sk.proficiencyScore,
          experienceScore |-> experienceScore,
          locationScore |-> locationScore,
          vectorScore |-> normalizedVectorScore,
          sqlBonus |-> sqlBonus,
          matchedSkills |-> sk.matchedSkills,
          missingRequiredSkills |-> sk.missingRequiredSkills,
          reasoning |->
              generateReasoning(
                  MathRound(RDiv(WeightedSum(sk.skillScore, sk.proficiencyScore,
                                             experienceScore, locationScore,
                                             normalizedVectorScore, sqlBonus, weights),
                                 Int2Rat(100))),
                  sk.matchedSkills, sk.missingRequiredSkills,
                  candidateYears, requiredYears)]

calculateSophisticatedScore(candidate, jobMatchData, vectorScore, sqlMatch, weights) ==
    Breakdown(calculateSkillScores(candidate.skills, jobMatchData.requirements),
              calculateExperienceScore(candidate.totalExperienceYears,
                                       jobMatchData.minExperienceYears,
                                       jobMatchData.requirements),
              calculateLocationScore(candidate.location, jobMatchData.location),
              NormalizedVectorScore(vectorScore),
              SqlBonus(sqlMatch),
              weights,
              candidate.totalExperienceYears,
              jobMatchData.minExperienceYears)

BoolCount(b) == IF b THEN 1 ELSE 0

\* the end of calculateFinalScore: normalisation and cap when several sources
\* contributed, then Math.round
FinalRound(score, weights) ==
    IF weights > 1
    THEN MathRound(RMin(Int2Rat(99), RMul(RDiv(score, Int2Rat(weights)), Rat(3, 2))))
    ELSE MathRound(score)

\* calculateFinalScore counting a SQL match as 100 points instead of 70
calculateFinalScoreSqlFull(sqlMatch, vectorMatch, vectorScore, llmGrade, dual) ==
    IF sqlMatch /\ vectorMatch THEN dual
    ELSE FinalRound(
             RAdd(RAdd(IF sqlMatch THEN Int2Rat(100) ELSE Int2Rat(0),
                       IF vectorMatch /\ vectorScore # Undefined
                       THEN RMul(vectorScore, Int2Rat(80)) ELSE Int2Rat(0)),
                  IF llmGrade # Undefined
                  THEN RMul(llmGrade, Rat(1, 2)) ELSE Int2Rat(0)),
             BoolCount(sqlMatch) + BoolCount(vectorMatch /\ vectorScore # Undefined)
             + BoolCount(llmGrade # Undefined))

\* the fallback scorer; dual is this.dualMatchScore
calculateFinalScore(sqlMatch, vectorMatch, vectorScore, llmGrade, dual) ==
    IF sqlMatch /\ vectorMatch THEN dual
    ELSE FinalRound(
             RAdd(RAdd(IF sqlMatch THEN Int2Rat(70) ELSE Int2Rat(0),
                       IF vectorMatch /\ vectorScore # Undefined
                       THEN RMul(vectorScore, Int2Rat(80)) ELSE Int2Rat(0)),
                  IF llmGrade # Undefined
                  THEN RMul(llmGrade, Rat(1, 2)) ELSE Int2Rat(0)),
             BoolCount(sqlMatch) + BoolCount(vectorMatch /\ vectorScore # Undefined)
             + BoolCount(llmGrade # Undefined))

-----------------------------------------------------------------------------
(* Data the runs are exercised on *)

CandIds == 1..NumCands

Python == <<"P", "y", "t", "h", "o", "n">>
PythonUpper == <<"P", "Y", "T", "H", "O", "N">>
Docker == <<"D", "o", "c", "k", "e", "r">>
DockerLower == <<"d", "o", "c", "k", "e", "r">>
JavaScript == <<"J", "a", "v", "a", "S", "c", "r", "i", "p", "t">>
JS == <<"J", "S">>
Sql == <<"S", "Q", "L">>
Haifa == <<"H", "a", "i", "f", "a", ",", " ", "I", "s", "r", "a", "e", "l">>
TelAviv == <<"T", "e", "l", " ", "A", "v", "i", "v">>
TelAvivIsrael == <<"T", "e", "l", " ", "A", "v", "i", "v", ",", " ", "I", "s", "r", "a", "e", "l">>
RemoteEurope == <<"R", "e", "m", "o", "t", "e", " ", "(", "E", "u", "r", "o", "p", "e", ")">>

SkillsArray(items) == [isArray |-> TRUE, items |-> items]
NoSkillsArray == [isArray |-> FALSE, items |-> <<>>]

\* candidate records (skills, totalExperienceYears, location of the entity)
ProfileTable == <<
    [skills |-> SkillsArray(<<[name |-> Python, level |-> "expert",
                               yearsOfExperience |-> Int2Rat(8)]>>),
     totalExperienceYears |-> Int2Rat(8), location |-> <<>>],
    [skills |-> SkillsArray(<<[name |-> JS, level |-> "intermediate",
                               yearsOfExperience |-> Int2Rat(2)],
                              [name |-> Docker, level |-> "advanced",
                               yearsOfExperience |-> Undefined]>>),
     totalExperienceYears |-> Int2Rat(3), location |-> Haifa],
    [skills |-> NoSkillsArray,
     totalExperienceYears |-> Int2Rat(5), location |-> <<>>],
    [skills |-> SkillsArray(<<[name |-> PythonUpper, level |-> "advanced",
                               yearsOfExperience |-> Int2Rat(6)],
                              [name |-> DockerLower, level |-> "beginner",
                               yearsOfExperience |-> Int2Rat(1)]>>),
     totalExperienceYears |-> Int2Rat(6), location |-> TelAviv]
>>

ProfileOf(c) == ProfileTable[((c - 1) % Len(ProfileTable)) + 1]

\* extracted job data (requirements, location)
ScenarioJob ==
    [requirements |-> <<[skill |-> Python, required |-> TRUE,
                         minYearsExperience |-> Int2Rat(5)],
                        [skill |-> Docker, required |-> FALSE,
                         minYearsExperience |-> Undefined]>>,
     location |-> <<>>]

Jobs == {
    ScenarioJob,
    [requirements |-> <<>>, location |-> RemoteEurope],
    [requirements |-> <<[skill |-> JavaScript, required |-> TRUE,
                         minYearsExperience |-> Int2Rat(2)],
                        [skill |-> Sql, required |-> FALSE,
                         minYearsExperience |-> Int2Rat(4)]>>,
     location |-> TelAvivIsrael]
}

\* similarity of each candidate's stored embedding to the job summary, in [0,1]
SimilarityTable == <<Rat(9, 10), Rat(3, 10), Rat(3, 10), Rat(1, 1), Rat(0, 1)>>

SimilarityOf(c) == SimilarityTable[((c - 1) % Len(SimilarityTable)) + 1]

-----------------------------------------------------------------------------
(* JobProcessingAgent.findMatchingCandidates *)

\* r.minYearsExperience of the requirements that define one
RECURSIVE DefinedMinYears(_, _)
DefinedMinYears(requirements, i) ==
    IF i > Len(requirements) THEN <<>>
    ELSE IF requirements[i].minYearsExperience # Undefined
    THEN <<requirements[i].minYearsExperience>> \o DefinedMinYears(requirements, i + 1)
    ELSE DefinedMinYears(requirements, i + 1)

RECURSIVE MathMin(_, _, _)
MathMin(xs, i, acc) ==
    IF i > Len(xs) THEN acc ELSE MathMin(xs, i + 1, RMin(acc, xs[i]))

\* Math.min(...minimums, 0)
MinExperience(requirements) == MathMin(DefinedMinYears(requirements, 1), 1, Int2Rat(0))

\* minExperience > 0 ? minExperience : undefined
PositiveOrUndefined(minExperience) ==
    IF RLt(Int2Rat(0), minExperience) THEN minExperience ELSE Undefined

MinExperienceParam(requirements) == PositiveOrUndefined(MinExperience(requirements))

BuildJobMatchData(jobData) ==
    [requirements |-> jobData.requirements,
     location |-> jobData.location,
     minExperienceYears |-> MinExperienceParam(jobData.requirements)]

RECURSIVE MergeSql(_, _, _)
MergeSql(results, m, i) ==
    IF i > Len(results) THEN m
    ELSE MergeSql(results,
                  MapSet(m, results[i],
                         [sqlMatch |-> TRUE, vectorMatch |-> FALSE,
                          vectorScore |-> Undefined]),
                  i + 1)

\* MergeVectorStep overwriting the record of an id the map already holds
MergeVectorStepOverwrite(m, result) ==
    MapSet(m, result[1],
           [sqlMatch |-> FALSE, vectorMatch |-> TRUE, vectorScore |-> result[2]])

MergeVectorStep(m, result) ==
    IF MapHas(m, result[1])
    THEN MapSet(m, result[1],
                [MapGet(m, result[1]) EXCEPT !.vectorMatch = TRUE,
                                             !.vectorScore = result[2]])
    ELSE MapSet(m, result[1],
                [sqlMatch |-> FALSE, vectorMatch |-> TRUE,
                 vectorScore |-> result[2]])

RECURSIVE MergeVector(_, _, _)
MergeVector(results, m, i) ==
    IF i > Len(results) THEN m
    ELSE MergeVector(results, MergeVectorStep(m, results[i]), i + 1)

MergeResults(sqlRes, vectorRes) == MergeVector(vectorRes, MergeSql(sqlRes, <<>>, 1), 1)

\* calculateSophisticatedScore is a pure function: its values on the stored
\* candidates, tabulated once per job, similarity (absent, or the candidate's)
\* and sqlMatch flag
SophisticatedScores ==
    [c \in CandIds |-> [jobData \in Jobs |-> [hasVector \in BOOLEAN |->
        [sqlMatch \in BOOLEAN |->
            calculateSophisticatedScore(ProfileOf(c), BuildJobMatchData(jobData),
                                        IF hasVector THEN SimilarityOf(c) ELSE Undefined,
                                        sqlMatch, defaultWeights)]]]]

\* ScoreCandidate raising an error for a candidate whose profile was not loaded
ScoreCandidateRequiresProfile(entry, full, jobData, dual) ==
    [threw |-> entry[1] \notin full \/ SophisticatedScores[entry[1]][jobData]
                                  [entry[2].vectorScore # Undefined][entry[2].sqlMatch].threw,
     candidateId |-> entry[1],
     matchScore |-> SophisticatedScores[entry[1]][jobData]
                        [entry[2].vectorScore # Undefined][entry[2].sqlMatch].totalScore,
     scorer |-> "sophisticated",
     sqlMatch |-> entry[2].sqlMatch,
     vectorMatch |-> entry[2].vectorMatch,
     vectorScore |-> entry[2].vectorScore,
     scoreBreakdown |-> <<>>]

\* one iteration of the scoring loop: the result pushed for a map entry, or
\* the exception thrown by the scorer
ScoreCandidate(entry, full, jobData, dual) ==
    LET candidateId == entry[1]
        match == entry[2]
    IN  IF candidateId \in full
        THEN LET scoreBreakdown ==
                     SophisticatedScores[candidateId][jobData]
                                        [match.vectorScore # Undefined][match.sqlMatch]
             IN  [threw |-> scoreBreakdown.threw,
                  candidateId |-> candidateId,
                  matchScore |-> scoreBreakdown.totalScore,
                  scorer |-> "sophisticated",
                  sqlMatch |-> match.sqlMatch,
                  vectorMatch |-> match.vectorMatch,
                  vectorScore |-> match.vectorScore,
                  scoreBreakdown |-> <<scoreBreakdown>>]
        ELSE [threw |-> FALSE,
              candidateId |-> candidateId,
              matchScore |-> calculateFinalScore(match.sqlMatch, match.vectorMatch,
                                                 match.vectorScore, Undefined, dual),
              scorer |-> "fallback",
              sqlMatch |-> match.sqlMatch,
              vectorMatch |-> match.vectorMatch,
              vectorScore |-> match.vectorScore,
              scoreBreakdown |-> <<>>]

\* IsDual counting every candidate the vector search returned
IsDualVectorMatch(match) ==
    match.vectorMatch

IsDual(match) ==
    match.sqlMatch /\ match.vectorMatch

\* the scoring loop over the map, stopped by the first exception; r is the
\* outcome of iteration i
RECURSIVE ScoreLoop(_, _, _, _, _, _)
ScoreLoopStep(m, full, jobData, dual, i, acc, r) ==
    IF r.threw
    THEN [acc EXCEPT !.threw = TRUE,
                     !.dualMatchCount = @ + BoolCount(IsDual(m[i][2])),
                     !.thrownAt = <<m[i][1]>>]
    ELSE ScoreLoop(m, full, jobData, dual, i + 1,
                   [acc EXCEPT !.dualMatchCount = @ + BoolCount(IsDual(m[i][2])),
                               !.candidates = Append(@, r)])

ScoreLoop(m, full, jobData, dual, i, acc) ==
    IF i > Len(m) THEN acc
    ELSE ScoreLoopStep(m, full, jobData, dual, i, acc,
                       ScoreCandidate(m[i], full, jobData, dual))

\* InsertSorted placing x before the elements of equal score
RECURSIVE InsertSortedBeforeEqual(_, _, _)
InsertSortedBeforeEqual(sorted, x, i) ==
    IF i > Len(sorted) \/ sorted[i].matchScore <= x.matchScore
    THEN SubSeq(sorted, 1, i - 1) \o <<x>> \o SubSeq(sorted, i, Len(sorted))
    ELSE InsertSortedBeforeEqual(sorted, x, i + 1)

\* insertion of x into a list sorted by descending matchScore, after every
\* element that does not compare greater (Array.prototype.sort is stable)
RECURSIVE InsertSorted(_, _, _)
InsertSorted(sorted, x, i) ==
    IF i > Len(sorted) \/ sorted[i].matchScore < x.matchScore
    THEN SubSeq(sorted, 1, i - 1) \o <<x>> \o SubSeq(sorted, i, Len(sorted))
    ELSE InsertSorted(sorted, x, i + 1)

RECURSIVE SortByScore(_, _, _)
SortByScore(list, i, sorted) ==
    IF i > Len(list) THEN sorted
    ELSE SortByScore(list, i + 1, InsertSorted(sorted, list[i], 1))

\* Slice with an end index one too far
SliceOneMore(list, n) ==
    SubSeq(list, 1, IF n + 1 < Len(list) THEN n + 1 ELSE Len(list))

\* candidates.slice(0, n) for n >= 0
Slice(list, n) == SubSeq(list, 1, IF n < Len(list) THEN n ELSE Len(list))

NoMetadata == [sqlMatchCount |-> 0, vectorMatchCount |-> 0, dualMatchCount |-> 0]

\* results the structured filter can return for the query: distinct ids of
\* stored candidates that pass the experience filter, most experienced first
SqlResultLists(stored, query) ==
    LET passing == {c \in stored :
                       \/ query.minExperienceYears = Undefined
                       \/ RLe(query.minExperienceYears, ProfileOf(c).totalExperienceYears)}
    IN  {r \in UNION {[1..n -> passing] : n \in 0..Cardinality(passing)} :
            /\ \A a, b \in 1..Len(r) : a # b => r[a] # r[b]
            /\ \A a \in 1..(Len(r) - 1) :
                  RLe(ProfileOf(r[a + 1]).totalExperienceYears,
                      ProfileOf(r[a]).totalExperienceYears)}

\* results the vector store can return: points <<candidateId, score>> (a
\* candidate can own several points) ordered by descending score
VectorResultLists ==
    LET ids == {r \in UNION {[1..n -> CandIds] : n \in 0..MaxVector} :
                   \A a \in 1..(Len(r) - 1) :
                      RLe(SimilarityOf(r[a + 1]), SimilarityOf(r[a]))}
    IN  {[i \in 1..Len(r) |-> <<r[i], SimilarityOf(r[i])>>] : r \in ids}

StartMatching(jobData) ==
    /\ pc = "idle"
    /\ pc' = "sql"
    /\ job' = jobData
    /\ sqlQuery' = [skills |-> [i \in 1..Len(jobData.requirements) |->
                                   jobData.requirements[i].skill],
                    minExperienceYears |-> MinExperienceParam(jobData.requirements)]
    /\ UNCHANGED <<db, configVars, sqlResults, vectorResults, candidateMap,
                   fullCandidates, candidates, topCandidates, metadata, tool, other, ingest, agent>>

SqlQueryReturns ==
    /\ pc = "sql"
    /\ \E results \in SqlResultLists(db, sqlQuery) : sqlResults' = results
    /\ pc' = "vector"
    /\ UNCHANGED <<db, configVars, job, sqlQuery, vectorResults, candidateMap,
                   fullCandidates, candidates, topCandidates, metadata, tool, other, ingest, agent>>

VectorSearchReturns ==
    /\ pc = "vector"
    /\ \E results \in VectorResultLists :
          /\ vectorResults' = results
          /\ candidateMap' = MergeResults(sqlResults, results)
    /\ pc' = "fetch"
    /\ UNCHANGED <<db, configVars, job, sqlQuery, sqlResults,
                   fullCandidates, candidates, topCandidates, metadata, tool, other, ingest, agent>>

FetchReturns ==
    /\ pc = "fetch"
    /\ \E full \in {{c \in db : MapHas(candidateMap, c)}} :
       \E scored \in {ScoreLoop(candidateMap, full, job, dualMatchScore, 1,
                                [threw |-> FALSE, dualMatchCount |-> 0,
                                 candidates |-> <<>>, thrownAt |-> <<>>])} :
           /\ fullCandidates' = full
           /\ candidates' = scored.candidates
           /\ IF scored.threw
              THEN /\ pc' = "failed"
                   /\ UNCHANGED <<topCandidates, metadata>>
              ELSE /\ pc' = "done"
                   /\ topCandidates' =
                          Slice(SortByScore(scored.candidates, 1, <<>>),
                                maxCandidatesReturn)
                   /\ metadata' = [sqlMatchCount |-> Len(sqlResults),
                                   vectorMatchCount |-> Len(vectorResults),
                                   dualMatchCount |-> scored.dualMatchCount]
    /\ UNCHANGED <<db, configVars, job, sqlQuery, sqlResults, vectorResults,
                   candidateMap, tool, other, ingest, agent>>

\* CandidateService.remove: the record leaves PostgreSQL (its vector point stays)
RemoveCandidate(c) ==
    /\ c \in db
    /\ Cardinality(CandIds \ db) < MaxRemovals
    /\ db' = db \ {c}
    /\ UNCHANGED <<configVars, runVars, tool, other, ingest, agent>>

\* the locals of an invocation of findMatchingCandidates that has not started
OtherIdle ==
    [pc |-> "idle",
     job |-> [requirements |-> <<>>, location |-> <<>>],
     sqlResults |-> <<>>, vectorResults |-> <<>>, candidateMap |-> <<>>,
     fullCandidates |-> {}, candidates |-> <<>>, topCandidates |-> <<>>]

\* handleFolderIngestion before a task arrives
IngestIdle ==
    [pc |-> "idle", listed |-> FALSE, pdfFiles |-> 0, next |-> 1,
     candidateIds |-> <<>>, failedFiles |-> <<>>,
     success |-> FALSE, threw |-> FALSE, totalFiles |-> 0]

\* JavaScript null, for the email of a record
Null == "null"

\* the entity object of a call that has not loaded or created one
NoEntity == [email |-> Null, status |-> "none", qdrantPointId |-> 0, resumePath |-> 0]

\* no candidate row, no vector point, no call of processCV under way; the
\* calls are those of the upload endpoint and of the queue worker
AgentIdle ==
    [rows |-> <<>>, points |-> <<>>, started |-> 0, results |-> {},
     calls |-> [s \in {"upload", "queue"} |->
                   [pc |-> "idle", file |-> 0, email |-> Null, existing |-> 0,
                    entity |-> NoEntity, candidate |-> 0, pointId |-> 0,
                    success |-> FALSE, failedAt |-> "none"]]]

DefaultMaxCandidatesReturn == 5
DefaultDualMatchScore == 100

\* LLM_CONFIG: the defaults, or values set in the environment
Configs == {
    [maxCandidatesReturn |-> DefaultMaxCandidatesReturn,
     dualMatchScore |-> DefaultDualMatchScore],
    [maxCandidatesReturn |-> 2, dualMatchScore |-> 90]
}

Init ==
    /\ db = CandIds
    /\ \E config \in Configs :
          /\ maxCandidatesReturn = config.maxCandidatesReturn
          /\ dualMatchScore = config.dualMatchScore
    /\ pc = "idle"
    /\ job = [requirements |-> <<>>, location |-> <<>>]
    /\ sqlQuery = [skills |-> <<>>, minExperienceYears |-> Undefined]
    /\ sqlResults = <<>>
    /\ vectorResults = <<>>
    /\ candidateMap = <<>>
    /\ fullCandidates = {}
    /\ candidates = <<>>
    /\ topCandidates = <<>>
    /\ metadata = NoMetadata
    /\ tool = [op |-> "none"]
    /\ other = OtherIdle
    /\ ingest = IngestIdle
    /\ agent = AgentIdle

Next ==
    \/ \E jobData \in Jobs : StartMatching(jobData)
    \/ SqlQueryReturns
    \/ VectorSearchReturns
    \/ FetchReturns
    \/ \E c \in CandIds : RemoveCandidate(c)

Spec == Init /\ [][Next]_vars

-----------------------------------------------------------------------------
(* Direct calls of the public MatchingGradeTool methods *)

SimSteps == 4
GradeStep == 10

ToolSimilarities == {Rat(k, SimSteps) : k \in 0..SimSteps}
ToolGrades == {Int2Rat(g) : g \in {x \in 0..100 : x % GradeStep = 0 \/ x = 100}}

WeightSum(w) ==
    w.skillMatch + w.skillProficiency + w.experienceMatch + w.locationMatch
    + w.vectorSimilarity + w.sqlMatch

\* weight configurations a caller can pass: the default, the configurations
\* over {0, 50, 100} that sum to 100, and three that do not sum to 100
WeightConfigs ==
    {defaultWeights}
    \cup {w \in [skillMatch : {0, 50, 100}, skillProficiency : {0, 50, 100},
                 experienceMatch : {0, 50, 100}, locationMatch : {0, 50, 100},
                 vectorSimilarity : {0, 50, 100}, sqlMatch : {0, 50, 100}] :
             WeightSum(w) = 100}
    \cup {[defaultWeights EXCEPT !.sqlMatch = 10],
          [defaultWeights EXCEPT !.skillMatch = 30],
          [skillMatch |-> 50, skillProficiency |-> 50, experienceMatch |-> 50,
           locationMatch |-> 50, vectorSimilarity |-> 50, sqlMatch |-> 50]}

\* the jobs of direct calls: those of Jobs, and one asking only for Python
\* with 5 years
ToolJobs ==
    Jobs \cup {[requirements |-> <<[skill |-> Python, required |-> TRUE,
                                    minYearsExperience |-> Int2Rat(5)]>>,
                location |-> <<>>]}

CallSophisticatedScore ==
    /\ tool.op = "none"
    /\ \E p \in 1..Len(ProfileTable), jobData \in ToolJobs,
          minYears \in {Undefined, Int2Rat(5)},
          vectorScore \in {Undefined, Int2Rat(0), Rat(1, 2), Int2Rat(1)},
          sqlMatch \in BOOLEAN, weights \in WeightConfigs :
          tool' = [op |-> "calculateSophisticatedScore",
                   candidate |-> ProfileTable[p],
                   job |-> [requirements |-> jobData.requirements,
                            location |-> jobData.location,
                            minExperienceYears |-> minYears],
                   vectorScore |-> vectorScore,
                   sqlMatch |-> sqlMatch,
                   weights |-> weights,
                   result |-> calculateSophisticatedScore(
                                  ProfileTable[p],
                                  [requirements |-> jobData.requirements,
                                   location |-> jobData.location,
                                   minExperienceYears |-> minYears],
                                  vectorScore, sqlMatch, weights)]
    /\ UNCHANGED <<db, configVars, runVars, other, ingest, agent>>

CallFinalScore ==
    /\ tool.op = "none"
    /\ \E sqlMatch \in BOOLEAN, vectorMatch \in BOOLEAN,
          vectorScore \in ToolSimilarities \cup {Undefined},
          llmGrade \in ToolGrades \cup {Undefined} :
          tool' = [op |-> "calculateFinalScore",
                   sqlMatch |-> sqlMatch,
                   vectorMatch |-> vectorMatch,
                   vectorScore |-> vectorScore,
                   llmGrade |-> llmGrade,
                   result |-> calculateFinalScore(sqlMatch, vectorMatch, vectorScore,
                                                  llmGrade, dualMatchScore)]
    /\ UNCHANGED <<db, configVars, runVars, other, ingest, agent>>

MaxYears == 12
YearDen == 2
MaxRequired == 5

\* years of experience a candidate record can hold, in steps of 1/YearDen
YearGrid == {Rat(k, YearDen) : k \in 0..(MaxYears * YearDen)}

\* a job's minExperienceYears: absent, or a whole number of years
RequiredYearsGrid == {Undefined} \cup {Int2Rat(k) : k \in 0..MaxRequired}

\* calculateExperienceScore is private: this is its call from
\* calculateSophisticatedScore, for the experience of any candidate record
CallExperienceScore ==
    /\ tool.op = "none"
    /\ \E candidateYears \in YearGrid, requiredYears \in RequiredYearsGrid,
          jobData \in Jobs :
          tool' = [op |-> "calculateExperienceScore",
                   candidateYears |-> candidateYears,
                   requiredYears |-> requiredYears,
                   requirements |-> jobData.requirements,
                   result |-> calculateExperienceScore(candidateYears, requiredYears,
                                                       jobData.requirements)]
    /\ UNCHANGED <<db, configVars, runVars, other, ingest, agent>>

NorthHaifa == <<"N", "o", "r", "t", "h", " ", "H", "a", "i", "f", "a">>
HaifaBay == <<"H", "a", "i", "f", "a", "-", "B", "a", "y", ",", " ", "I", "s", "r", "a", "e", "l">>

\* location strings of candidate and job records; <<>> is an absent location
Locations == {<<>>, Haifa, TelAviv, TelAvivIsrael, RemoteEurope, NorthHaifa, HaifaBay}

\* calculateLocationScore is private: this is its call from
\* calculateSophisticatedScore
CallLocationScore ==
    /\ tool.op = "none"
    /\ \E candidateLocation \in Locations, jobLocation \in Locations :
          tool' = [op |-> "calculateLocationScore",
                   candidateLocation |-> candidateLocation,
                   jobLocation |-> jobLocation,
                   result |-> calculateLocationScore(candidateLocation, jobLocation)]
    /\ UNCHANGED <<db, configVars, runVars, other, ingest, agent>>

Doker == <<"D", "o", "k", "e", "r">>
DockerCompose == <<"D", "o", "c", "k", "e", "r", " ", "C", "o", "m", "p", "o", "s", "e">>

\* skills values of candidate records: those of ProfileTable, a lone "JS"
\* skill, an empty array, and a misspelt "Doker" listed before "Docker Compose"
SkillSets ==
    {ProfileTable[p].skills : p \in 1..Len(ProfileTable)}
    \cup {SkillsArray(<<[name |-> JS, level |-> "advanced",
                         yearsOfExperience |-> Int2Rat(4)]>>),
          SkillsArray(<<>>),
          SkillsArray(<<[name |-> Doker, level |-> "beginner",
                         yearsOfExperience |-> Int2Rat(1)],
                        [name |-> DockerCompose, level |-> "expert",
                         yearsOfExperience |-> Int2Rat(6)]>>)}

\* requirement lists of jobs: those of Jobs, a lone required "JavaScript", and
\* a required "JavaScript" with a preferred "Docker"
RequirementLists ==
    {jobData.requirements : jobData \in Jobs}
    \cup {<<[skill |-> JavaScript, required |-> TRUE,
             minYearsExperience |-> Undefined]>>,
          <<[skill |-> JavaScript, required |-> TRUE,
             minYearsExperience |-> Undefined],
            [skill |-> Docker, required |-> FALSE,
             minYearsExperience |-> Undefined]>>}

\* calculateSkillScores is private: this is its call from
\* calculateSophisticatedScore, with the two result arrays it fills
CallSkillScores ==
    /\ tool.op = "none"
    /\ \E candidateSkills \in SkillSets, jobRequirements \in RequirementLists :
          tool' = [op |-> "calculateSkillScores",
                   candidateSkills |-> candidateSkills,
                   jobRequirements |-> jobRequirements,
                   result |-> calculateSkillScores(candidateSkills, jobRequirements)]
    /\ UNCHANGED <<db, configVars, runVars, other, ingest, agent>>

\* calculateProficiencyMatch is private: this is its call from
\* calculateSkillScores, for a matched skill of any level and years
CallProficiencyMatch ==
    /\ tool.op = "none"
    /\ \E level \in DOMAIN skillLevelValues,
          yearsOfExperience \in YearGrid \cup {Undefined},
          requiredYears \in RequiredYearsGrid :
          tool' = [op |-> "calculateProficiencyMatch",
                   candidateSkill |-> [name |-> Python, level |-> level,
                                       yearsOfExperience |-> yearsOfExperience],
                   requiredYears |-> requiredYears,
                   result |-> calculateProficiencyMatch(
                                  [name |-> Python, level |-> level,
                                   yearsOfExperience |-> yearsOfExperience],
                                  requiredYears)]
    /\ UNCHANGED <<db, configVars, runVars, other, ingest, agent>>

ToolReturn ==
    /\ tool.op # "none"
    /\ tool' = [op |-> "none"]
    /\ UNCHANGED <<db, configVars, runVars, other, ingest, agent>>

ToolNext ==
    \/ CallSophisticatedScore
    \/ CallFinalScore
    \/ CallExperienceScore
    \/ CallLocationScore
    \/ CallSkillScores
    \/ CallProficiencyMatch
    \/ ToolReturn

ToolSpec == Init /\ [][ToolNext]_vars

-----------------------------------------------------------------------------
(* A second invocation of findMatchingCandidates, interleaved with the first *)

OtherStartMatching(jobData) ==
    /\ other.pc = "idle"
    /\ other' = [other EXCEPT !.pc = "sql", !.job = jobData]
    /\ UNCHANGED <<db, configVars, runVars, tool, ingest, agent>>

OtherSqlQueryReturns ==
    /\ other.pc = "sql"
    /\ \E results \in SqlResultLists(db,
           [minExperienceYears |-> MinExperienceParam(other.job.requirements)]) :
          other' = [other EXCEPT !.pc = "vector", !.sqlResults = results]
    /\ UNCHANGED <<db, configVars, runVars, tool, ingest, agent>>

\* the vector search returning into a map kept on the agent instance, which
\* both invocations fill
OtherVectorSearchReturnsSharedMap ==
    /\ other.pc = "vector"
    /\ \E results \in VectorResultLists :
       \E merged \in {MergeVector(results,
                                  MergeSql(other.sqlResults, candidateMap, 1), 1)} :
          /\ other' = [other EXCEPT !.pc = "fetch", !.vectorResults = results,
                                     !.candidateMap = merged]
          /\ candidateMap' = merged
    /\ UNCHANGED <<db, configVars, pc, job, sqlQuery, sqlResults, vectorResults,
                   fullCandidates, candidates, topCandidates, metadata, tool, ingest, agent>>

\* the merge fills a Map created by this invocation
OtherVectorSearchReturns ==
    /\ other.pc = "vector"
    /\ \E results \in VectorResultLists :
          other' = [other EXCEPT !.pc = "fetch", !.vectorResults = results,
                                 !.candidateMap =
                                     MergeResults(other.sqlResults, results)]
    /\ UNCHANGED <<db, configVars, runVars, tool, ingest, agent>>

OtherFetchReturns ==
    /\ other.pc = "fetch"
    /\ \E full \in {{c \in db : MapHas(other.candidateMap, c)}} :
       \E scored \in {ScoreLoop(other.candidateMap, full, other.job, dualMatchScore, 1,
                                [threw |-> FALSE, dualMatchCount |-> 0,
                                 candidates |-> <<>>, thrownAt |-> <<>>])} :
          other' = IF scored.threw
                   THEN [other EXCEPT !.pc = "failed", !.fullCandidates = full,
                                      !.candidates = scored.candidates]
                   ELSE [other EXCEPT !.pc = "done", !.fullCandidates = full,
                                      !.candidates = scored.candidates,
                                      !.topCandidates =
                                          Slice(SortByScore(scored.candidates, 1, <<>>),
                                                maxCandidatesReturn)]
    /\ UNCHANGED <<db, configVars, runVars, tool, ingest, agent>>

\* the interleavings are explored on retrievals of at most one result each
ShortResults(results) == Len(results) <= 1

ConcurrentNext ==
    \/ \E jobData \in Jobs : StartMatching(jobData)
    \/ SqlQueryReturns /\ ShortResults(sqlResults')
    \/ VectorSearchReturns /\ ShortResults(vectorResults')
    \/ FetchReturns
    \/ \E jobData \in Jobs : OtherStartMatching(jobData)
    \/ OtherSqlQueryReturns /\ ShortResults(other'.sqlResults)
    \/ OtherVectorSearchReturns /\ ShortResults(other'.vectorResults)
    \/ OtherFetchReturns
    \/ \E c \in CandIds : RemoveCandidate(c)

ConcurrentSpec == Init /\ [][ConcurrentNext]_vars

-----------------------------------------------------------------------------
(* OrchestratorAgent.handleFolderIngestion and CandidateService.loadFolder *)

MaxFiles == 3

\* what candidateIngestionAgent.processCV can do for a file: return a
\* candidate id, return success = false, return success without an id, throw
ProcessOutcomes == {"ok", "failed", "noId", "threw"}

\* the id of the candidate record created from the file at this position
NewCandidateId(filePath) == NumCands + filePath

\* RecordOutcome losing the file whose processing threw
RecordOutcomeDropThrown(ing, filePath, outcome) ==
    IF outcome = "ok"
    THEN [ing EXCEPT !.candidateIds = Append(@, NewCandidateId(filePath))]
    ELSE IF outcome = "threw" THEN ing
    ELSE [ing EXCEPT !.failedFiles =
                         Append(@, [filePath |-> filePath, error |-> outcome])]

\* the body of the loop over pdfFiles, after processCV settled
RecordOutcome(ing, filePath, outcome) ==
    IF outcome = "ok"
    THEN [ing EXCEPT !.candidateIds = Append(@, NewCandidateId(filePath))]
    ELSE [ing EXCEPT !.failedFiles =
                         Append(@, [filePath |-> filePath, error |-> outcome])]

\* the task arrives, with or without data.folderPath
HandleFolderIngestion ==
    /\ ingest.pc = "idle"
    /\ \E hasFolderPath \in BOOLEAN :
          ingest' = IF hasFolderPath
                    THEN [ingest EXCEPT !.pc = "listing"]
                    ELSE [ingest EXCEPT !.pc = "returned", !.success = FALSE]
    /\ UNCHANGED <<db, configVars, runVars, tool, other, agent>>

\* getPdfFilesFromFolder throws, or returns the files 1..n
GetPdfFilesReturns ==
    /\ ingest.pc = "listing"
    /\ \/ ingest' = [ingest EXCEPT !.pc = "returned", !.success = FALSE]
       \/ \E n \in 0..MaxFiles :
             ingest' = IF n = 0
                       THEN [ingest EXCEPT !.pc = "returned", !.listed = TRUE,
                                           !.success = TRUE]
                       ELSE [ingest EXCEPT !.pc = "loop", !.listed = TRUE,
                                           !.pdfFiles = n]
    /\ UNCHANGED <<db, configVars, runVars, tool, other, agent>>

\* one iteration: processCV settles for the next file; after the last file
\* the handler returns
ProcessCVReturns ==
    /\ ingest.pc = "loop"
    /\ \E outcome \in ProcessOutcomes :
       \E recorded \in {RecordOutcome(ingest, ingest.next, outcome)} :
          /\ ingest' = IF ingest.next = ingest.pdfFiles
                       THEN [recorded EXCEPT !.next = @ + 1, !.pc = "returned",
                                             !.success = TRUE]
                       ELSE [recorded EXCEPT !.next = @ + 1]
          /\ db' = IF outcome = "ok"
                   THEN db \cup {NewCandidateId(ingest.next)} ELSE db
    /\ UNCHANGED <<configVars, runVars, tool, other, agent>>

\* CandidateService.loadFolder after executeTask returned
LoadFolderReturns ==
    /\ ingest.pc = "returned"
    /\ ingest' = IF ingest.success
                 THEN [ingest EXCEPT !.pc = "reported",
                                     !.totalFiles = Len(ingest.candidateIds)
                                                    + Len(ingest.failedFiles)]
                 ELSE [ingest EXCEPT !.pc = "reported", !.threw = TRUE]
    /\ UNCHANGED <<db, configVars, runVars, tool, other, agent>>

IngestNext ==
    \/ HandleFolderIngestion
    \/ GetPdfFilesReturns
    \/ ProcessCVReturns
    \/ LoadFolderReturns

IngestSpec == Init /\ [][IngestNext]_vars

-----------------------------------------------------------------------------
(* CandidateIngestionAgent.processCV / processCVFromBuffer *)

MaxCalls == 2

Slots == DOMAIN AgentIdle.calls

Ada == "ada@example.com"

\* data.email as extracted from a CV: an address, or null or the empty string
\* for a CV that gives none (the extraction schema asks for a string)
CvEmails == {Ada, Null, ""}

\* if (data.email)
HasEmail(email) == email # Null /\ email # ""

\* candidateRepository.findOne({ where: { email } }): the id of the row, 0 for null
FindOneByEmail(rows, email) ==
    IF \E c \in 1..Len(rows) : rows[c].email = email
    THEN CHOOSE c \in 1..Len(rows) : rows[c].email = email
    ELSE 0

\* the unique index on email: an insert is refused when a row has the same
\* non-null email
UniqueViolation(rows, email) ==
    email # Null /\ \E c \in 1..Len(rows) : rows[c].email = email

\* candidateRepository.create without a status: the column default applies
NewCandidateDefaultStatus(email, filePath) ==
    [email |-> email, status |-> "active", qdrantPointId |-> 0, resumePath |-> filePath]

\* candidateRepository.create({..., status: 'pending'})
NewCandidate(email, filePath) ==
    [email |-> email, status |-> "pending", qdrantPointId |-> 0, resumePath |-> filePath]

\* the existing entity with the new data, marked pending
UpdatedCandidate(existing, filePath) ==
    [existing EXCEPT !.resumePath = filePath, !.status = "pending"]

\* the call returns success: false from its catch block
CallFailed(call, step) ==
    [call EXCEPT !.pc = "returned", !.success = FALSE, !.failedAt = step]

\* steps 1-4 of a call (parse, extract, summarise, embed): they succeed, or
\* one of them throws
ProcessCV(s) ==
    /\ agent.calls[s].pc = "idle"
    /\ agent.started < MaxCalls
    /\ \E email \in CvEmails, ok \in BOOLEAN :
          agent' = [agent EXCEPT
                       !.started = @ + 1,
                       !.calls[s] =
                           IF ok
                           THEN [AgentIdle.calls[s] EXCEPT
                                    !.pc = "findOne", !.file = agent.started + 1,
                                    !.email = email]
                           ELSE CallFailed([AgentIdle.calls[s] EXCEPT
                                               !.file = agent.started + 1,
                                               !.email = email], "extract")]
    /\ UNCHANGED <<db, configVars, runVars, tool, other, ingest>>

\* saveToPostgres, up to the answer of findOne
FindOne(s) ==
    /\ agent.calls[s].pc = "findOne"
    /\ \E found \in {IF HasEmail(agent.calls[s].email)
                     THEN FindOneByEmail(agent.rows, agent.calls[s].email)
                     ELSE 0} :
          agent' = [agent EXCEPT
                       !.calls[s].pc = "save",
                       !.calls[s].existing = found,
                       !.calls[s].entity =
                           IF found # 0 THEN agent.rows[found] ELSE NoEntity]
    /\ UNCHANGED <<db, configVars, runVars, tool, other, ingest>>

\* saveToPostgres, the save: the existing row is overwritten by the updated
\* entity, or a new row is inserted unless the unique index refuses it
SaveToPostgres(s) ==
    /\ agent.calls[s].pc = "save"
    /\ agent' =
          IF agent.calls[s].existing # 0
          THEN [agent EXCEPT
                   !.rows[agent.calls[s].existing] =
                       UpdatedCandidate(agent.calls[s].entity, agent.calls[s].file),
                   !.calls[s].entity =
                       UpdatedCandidate(agent.calls[s].entity, agent.calls[s].file),
                   !.calls[s].candidate = agent.calls[s].existing,
                   !.calls[s].pc = "saveToQdrant"]
          ELSE IF UniqueViolation(agent.rows, agent.calls[s].email)
          THEN [agent EXCEPT !.calls[s] = CallFailed(@, "save")]
          ELSE [agent EXCEPT
                   !.rows = Append(@, NewCandidate(agent.calls[s].email,
                                                   agent.calls[s].file)),
                   !.calls[s].entity = NewCandidate(agent.calls[s].email,
                                                    agent.calls[s].file),
                   !.calls[s].candidate = Len(agent.rows) + 1,
                   !.calls[s].pc = "saveToQdrant"]
    /\ UNCHANGED <<db, configVars, runVars, tool, other, ingest>>

\* saveToQdrant: a new point is stored for the candidate, or the upsert throws
SaveToQdrant(s) ==
    /\ agent.calls[s].pc = "saveToQdrant"
    /\ \/ agent' = [agent EXCEPT
                       !.points = Append(@, [candidateId |-> agent.calls[s].candidate,
                                             resumePath |-> agent.calls[s].file]),
                       !.calls[s].pointId = Len(agent.points) + 1,
                       !.calls[s].pc = "activate"]
       \/ agent' = [agent EXCEPT !.calls[s] = CallFailed(@, "saveToQdrant")]
    /\ UNCHANGED <<db, configVars, runVars, tool, other, ingest>>

\* the entity gets its point id and status 'active' and is saved, or that
\* save throws; then the call returns
Activate(s) ==
    /\ agent.calls[s].pc = "activate"
    /\ \/ agent' = [agent EXCEPT
                       !.rows[agent.calls[s].candidate] =
                           [agent.calls[s].entity EXCEPT
                               !.qdrantPointId = agent.calls[s].pointId,
                               !.status = "active"],
                       !.calls[s].entity =
                           [@ EXCEPT !.qdrantPointId = agent.calls[s].pointId,
                                     !.status = "active"],
                       !.calls[s].pc = "returned",
                       !.calls[s].success = TRUE]
       \/ agent' = [agent EXCEPT !.calls[s] = CallFailed(@, "activate")]
    /\ UNCHANGED <<db, configVars, runVars, tool, other, ingest>>

\* the caller has its result and can make another call
ProcessCVDone(s) ==
    /\ agent.calls[s].pc = "returned"
    /\ agent.started < MaxCalls
    /\ agent' = [agent EXCEPT !.calls[s] = AgentIdle.calls[s]]
    /\ UNCHANGED <<db, configVars, runVars, tool, other, ingest>>

\* PostgresQueryTool.queryCandidates: the rows with status 'active'
QueryCandidates ==
    /\ agent' = [agent EXCEPT
                    !.results = {[id |-> c, row |-> agent.rows[c]] :
                                    c \in {c \in 1..Len(agent.rows) :
                                              agent.rows[c].status = "active"}}]
    /\ UNCHANGED <<db, configVars, runVars, tool, other, ingest>>

ProcessCVNext ==
    \/ \E s \in Slots : ProcessCV(s)
    \/ \E s \in Slots : FindOne(s)
    \/ \E s \in Slots : SaveToPostgres(s)
    \/ \E s \in Slots : SaveToQdrant(s)
    \/ \E s \in Slots : Activate(s)
    \/ \E s \in Slots : ProcessCVDone(s)
    \/ QueryCandidates

ProcessCVSpec == Init /\ [][ProcessCVNext]_vars

-----------------------------------------------------------------------------
(* Properties *)

Finished == pc \in {"done", "failed"}

Merged == pc \in {"fetch", "done", "failed"}

SqlIds == {sqlResults[i] : i \in 1..Len(sqlResults)}

VectorIds == {vectorResults[i][1] : i \in 1..Len(vectorResults)}

MapKeys == {candidateMap[i][1] : i \in 1..Len(candidateMap)}

TopIds == {topCandidates[i].candidateId : i \in 1..Len(topCandidates)}

\* C1: at the end of a run, every scored candidate found by both the SQL
\* filter and the vector search has matchScore = dualMatchScore, whichever
\* scorer scored it.
C1_DualMatchGetsDualScore ==
    pc = "done" =>
        \A i \in 1..Len(candidates) :
            (candidates[i].sqlMatch /\ candidates[i].vectorMatch)
                => candidates[i].matchScore = dualMatchScore

\* C2: a call of calculateSophisticatedScore with weights that sum to 100
\* returns a totalScore within [0,100].
C2_TotalScoreInRange ==
    (/\ tool.op = "calculateSophisticatedScore"
     /\ WeightSum(tool.weights) = 100
     /\ ~tool.result.threw)
        => tool.result.totalScore \in 0..100

\* a call with weights concentrated on one factor returns the extreme 100
C2_Witness ==
    /\ tool.op = "calculateSophisticatedScore"
    /\ WeightSum(tool.weights) = 100
    /\ tool.weights # defaultWeights
    /\ tool.vectorScore # Undefined
    /\ ~tool.result.threw
    /\ tool.result.totalScore = 100

\* C3: the merged map holds exactly one record per id of the SQL results or
\* the vector results; sqlMatch iff the id is a SQL result, vectorMatch iff it
\* is a vector result, and a vectorScore is attached iff vectorMatch.
C3_MergeOneRecordPerId ==
    Merged =>
        /\ \A a, b \in 1..Len(candidateMap) :
              a # b => candidateMap[a][1] # candidateMap[b][1]
        /\ MapKeys = SqlIds \cup VectorIds
        /\ \A i \in 1..Len(candidateMap) :
              /\ candidateMap[i][2].sqlMatch <=> candidateMap[i][1] \in SqlIds
              /\ candidateMap[i][2].vectorMatch <=> candidateMap[i][1] \in VectorIds
              /\ candidateMap[i][2].vectorScore # Undefined
                    <=> candidateMap[i][2].vectorMatch

\* a merge with a SQL-only, a vector-only and a dual record
C3_Witness ==
    /\ pc = "fetch"
    /\ \E a, b, c \in 1..Len(candidateMap) :
          /\ candidateMap[a][2].sqlMatch /\ ~candidateMap[a][2].vectorMatch
          /\ ~candidateMap[b][2].sqlMatch /\ candidateMap[b][2].vectorMatch
          /\ candidateMap[c][2].sqlMatch /\ candidateMap[c][2].vectorMatch

\* C4: the returned list is in non-increasing matchScore order, has
\* min(maxCandidatesReturn, number of merged candidates) elements, all of them
\* scored candidates, and no scored candidate left out has a strictly higher
\* matchScore than one in the list.
C4_TopCandidatesSortedAndTruncated ==
    pc = "done" =>
        /\ \A i \in 1..(Len(topCandidates) - 1) :
              topCandidates[i].matchScore >= topCandidates[i + 1].matchScore
        /\ Len(topCandidates) =
              IF maxCandidatesReturn < Len(candidateMap)
              THEN maxCandidatesReturn ELSE Len(candidateMap)
        /\ Cardinality(TopIds) = Len(topCandidates)
        /\ \A i \in 1..Len(topCandidates) :
              \E j \in 1..Len(candidates) : candidates[j] = topCandidates[i]
        /\ \A j \in 1..Len(candidates) :
              candidates[j].candidateId \notin TopIds =>
                  \A i \in 1..Len(topCandidates) :
                      candidates[j].matchScore <= topCandidates[i].matchScore

\* a run that scored more candidates than it returns, the one it dropped
\* having scored strictly less than all it returned
C4_Witness ==
    /\ pc = "done"
    /\ Len(candidates) > maxCandidatesReturn
    /\ Len(topCandidates) = maxCandidatesReturn
    /\ topCandidates[1].matchScore > topCandidates[2].matchScore
    /\ \E j \in 1..Len(candidates) :
          /\ candidates[j].candidateId \notin TopIds
          /\ candidates[j].matchScore < topCandidates[Len(topCandidates)].matchScore
          /\ j < Len(candidates)

FirstVectorIndex(id) ==
    CHOOSE i \in 1..Len(vectorResults) :
        /\ vectorResults[i][1] = id
        /\ \A j \in 1..(i - 1) : vectorResults[j][1] # id

SqlIndex(id) == CHOOSE i \in 1..Len(sqlResults) : sqlResults[i] = id

\* merge order: SQL results in their order, then vector-only ids in the order
\* of their first vector result
MergedBefore(a, b) ==
    IF a \in SqlIds
    THEN b \notin SqlIds \/ SqlIndex(a) < SqlIndex(b)
    ELSE b \notin SqlIds /\ FirstVectorIndex(a) < FirstVectorIndex(b)

\* C5: two returned candidates of equal matchScore appear in merge order (SQL
\* results in SQL order first, then vector-only candidates in vector order).
C5_TiesKeepMergeOrder ==
    pc = "done" =>
        \A i, j \in 1..Len(topCandidates) :
            (i < j /\ topCandidates[i].matchScore = topCandidates[j].matchScore)
                => MergedBefore(topCandidates[i].candidateId,
                                topCandidates[j].candidateId)

\* a returned tie that follows a higher score, between candidates the SQL
\* filter listed in descending id order
C5_Witness ==
    /\ pc = "done"
    /\ \E i, j \in 1..Len(topCandidates) :
          /\ 1 < i /\ i < j
          /\ topCandidates[1].matchScore > topCandidates[i].matchScore
          /\ topCandidates[i].matchScore = topCandidates[j].matchScore
          /\ topCandidates[i].candidateId > topCandidates[j].candidateId

\* C6: a call of calculateSophisticatedScore with weights that do not sum to
\* 100 is rejected with an error instead of returning a score.
C6_NonHundredWeightsRejected ==
    (tool.op = "calculateSophisticatedScore" /\ WeightSum(tool.weights) # 100)
        => tool.result.threw

\* C7: a run on a job with at least one requirement, in which a candidate with
\* no skills array has its profile loaded, raises no error and scores every
\* merged candidate.
C7_NoSkillsArrayDoesNotRaise ==
    (/\ Finished
     /\ Len(job.requirements) > 0
     /\ \E c \in fullCandidates : ~ProfileOf(c).skills.isArray)
        => /\ pc = "done"
           /\ Len(candidates) = Len(candidateMap)

\* C8: a merged candidate with no stored record at fetch time is scored by
\* calculateFinalScore; no run fails at such a candidate, and a run that ends
\* has scored as many candidates as were merged.
C8_MissingProfileUsesFallback ==
    Finished =>
        /\ \A i \in 1..Len(candidates) :
              candidates[i].candidateId \notin fullCandidates =>
                  /\ candidates[i].scorer = "fallback"
                  /\ candidates[i].matchScore =
                         calculateFinalScore(candidates[i].sqlMatch,
                                             candidates[i].vectorMatch,
                                             candidates[i].vectorScore,
                                             Undefined, dualMatchScore)
        /\ pc = "done" => Len(candidates) = Len(candidateMap)
        /\ pc = "failed" =>
              /\ Len(candidates) < Len(candidateMap)
              /\ candidateMap[Len(candidates) + 1][1] \in fullCandidates

\* a finished run that scored a candidate without a stored record, before a
\* candidate whose profile was loaded
C8_Witness ==
    /\ pc = "done"
    /\ \E i, j \in 1..Len(candidates) :
          /\ i < j
          /\ candidates[i].candidateId \notin db
          /\ candidates[i].scorer = "fallback"
          /\ candidates[j].scorer = "sophisticated"

\* C9: calculateFinalScore returns at most 99 unless both sources matched, 70
\* for a SQL-only candidate without LLM grade, round(80 * s) for a vector-only
\* candidate of similarity s without LLM grade, and 100 only for a dual match.
C9_FallbackScoreCappedBelowDual ==
    tool.op = "calculateFinalScore" =>
        /\ ~(tool.sqlMatch /\ tool.vectorMatch) => tool.result <= 99
        /\ (tool.sqlMatch /\ ~tool.vectorMatch /\ tool.llmGrade = Undefined)
              => tool.result = 70
        /\ (/\ ~tool.sqlMatch /\ tool.vectorMatch
            /\ tool.vectorScore # Undefined /\ tool.llmGrade = Undefined)
              => tool.result = MathRound(RMul(Int2Rat(80), tool.vectorScore))
        /\ tool.result = 100 => (tool.sqlMatch /\ tool.vectorMatch)

\* the highest score of a candidate found by one source: similarity 1 and
\* LLM grade 100
C9_Witness ==
    /\ tool.op = "calculateFinalScore"
    /\ ~tool.sqlMatch /\ tool.vectorMatch
    /\ tool.vectorScore = Int2Rat(1)
    /\ tool.llmGrade = Int2Rat(100)
    /\ tool.result = 98

\* C10: in a run on the scenario job (Python required with 5 years, Docker
\* preferred), the candidate with Python expert 8 years and 8 total years,
\* found by the SQL filter only, gets missingRequiredSkills = [],
\* experienceScore = 100, skillScore = round(220 / 300 * 100) and a totalScore
\* that is the weighted formula of its breakdown.
C10_ScenarioBreakdown ==
    (pc = "done" /\ job = ScenarioJob) =>
        \A i \in 1..Len(candidates) :
            (/\ candidates[i].candidateId = 1
             /\ candidates[i].scorer = "sophisticated"
             /\ candidates[i].sqlMatch /\ ~candidates[i].vectorMatch)
                => /\ candidates[i].scoreBreakdown[1].missingRequiredSkills = <<>>
                   /\ candidates[i].scoreBreakdown[1].experienceScore = Int2Rat(100)
                   /\ candidates[i].scoreBreakdown[1].skillScore
                          = MathRound(Rat(220 * 100, 300))
                   /\ candidates[i].matchScore =
                          TotalScore(WeightedSum(
                              candidates[i].scoreBreakdown[1].skillScore,
                              candidates[i].scoreBreakdown[1].proficiencyScore,
                              candidates[i].scoreBreakdown[1].experienceScore,
                              candidates[i].scoreBreakdown[1].locationScore,
                              candidates[i].scoreBreakdown[1].vectorScore,
                              candidates[i].scoreBreakdown[1].sqlBonus,
                              defaultWeights))

\* the difference calculateExperienceScore applies its curve to
ExperienceDiff ==
    RSub(tool.candidateYears,
         EffectiveRequiredYears(tool.requiredYears, tool.requirements))

RAbs(x) == IF RLt(x, Int2Rat(0)) THEN RSub(Int2Rat(0), x) ELSE x

\* the smallest step of experience the calls are made with
YearStep == Rat(1, YearDen)

ReferenceCurve(diff) ==
    IF RLe(Int2Rat(0), diff) /\ RLe(diff, Int2Rat(3)) THEN Int2Rat(100)
    ELSE IF RLt(Int2Rat(3), diff) /\ RLe(diff, Int2Rat(7))
    THEN RSub(Int2Rat(90), RMul(Int2Rat(5), RSub(diff, Int2Rat(3))))
    ELSE IF RLt(Int2Rat(7), diff)
    THEN RMax(Int2Rat(50), RSub(Int2Rat(70), RMul(Int2Rat(5), RSub(diff, Int2Rat(7)))))
    ELSE IF RLe(Int2Rat(-2), diff)
    THEN RAdd(Int2Rat(80), RMul(Int2Rat(10), diff))
    ELSE RMax(Int2Rat(20), RAdd(Int2Rat(60), RMul(Int2Rat(10), diff)))

\* C20: for every candidateYears and every requiredYears given to it,
\* calculateExperienceScore is the reference curve at
\* candidateYears - requiredYears, a value within [20,100].
C20_ExperienceScoreIsReferenceCurve ==
    (tool.op = "calculateExperienceScore" /\ tool.requiredYears # Undefined) =>
        /\ tool.result = ReferenceCurve(RSub(tool.candidateYears, tool.requiredYears))
        /\ RLe(Int2Rat(20), tool.result) /\ RLe(tool.result, Int2Rat(100))

IsRemote(location) == Includes(toLowerCase(location), Remote)

\* C12: for two non-empty locations that reach the containment and
\* token-match branches (neither names a remote job), the score of A against
\* job location B equals the score of B against job location A.
C12_LocationScoreSymmetric ==
    (/\ tool.op = "calculateLocationScore"
     /\ tool.candidateLocation # <<>> /\ tool.jobLocation # <<>>
     /\ ~IsRemote(tool.candidateLocation) /\ ~IsRemote(tool.jobLocation))
        => /\ tool.result \in {100, 80, 40}
           /\ tool.result = calculateLocationScore(tool.jobLocation,
                                                   tool.candidateLocation)

\* a token match in which only a part of the job location contains a part of
\* the candidate location
C12_Witness ==
    /\ tool.op = "calculateLocationScore"
    /\ tool.candidateLocation = NorthHaifa
    /\ tool.jobLocation = HaifaBay
    /\ tool.result = 80

SkillsCallReturned ==
    /\ tool.op = "calculateSkillScores"
    /\ ~tool.result.threw
    /\ Len(tool.jobRequirements) > 0

\* a candidate skill has this name, ignoring case
HasNameIgnoringCase(name) ==
    \E k \in 1..Len(tool.candidateSkills.items) :
        toLowerCase(tool.candidateSkills.items[k].name) = toLowerCase(name)

\* a candidate skill matches this name exactly or fuzzily
HasAnyMatch(name) ==
    \E k \in 1..Len(tool.candidateSkills.items) :
        \/ toLowerCase(tool.candidateSkills.items[k].name) = toLowerCase(name)
        \/ fuzzySkillMatch(toLowerCase(name),
                           toLowerCase(tool.candidateSkills.items[k].name))

InMatchedSkills(name) ==
    \E k \in 1..Len(tool.result.matchedSkills) :
        tool.result.matchedSkills[k].skill = name

InMissingRequiredSkills(name) ==
    \E k \in 1..Len(tool.result.missingRequiredSkills) :
        tool.result.missingRequiredSkills[k] = name

\* credit of a requirement: 100 for a name equal ignoring case, 80 for any
\* other match, 20 for an unmatched preferred skill, 0 for a missing required
CreditOf(req) ==
    IF HasNameIgnoringCase(req.skill) THEN 100
    ELSE IF InMatchedSkills(req.skill) THEN 80
    ELSE IF req.required THEN 0 ELSE 20

RequirementWeight(req) == IF req.required THEN 2 ELSE 1

RECURSIVE CreditPoints(_)
CreditPoints(i) ==
    IF i > Len(tool.jobRequirements) THEN 0
    ELSE RequirementWeight(tool.jobRequirements[i]) * CreditOf(tool.jobRequirements[i])
         + CreditPoints(i + 1)

RECURSIVE FullPoints(_)
FullPoints(i) ==
    IF i > Len(tool.jobRequirements) THEN 0
    ELSE RequirementWeight(tool.jobRequirements[i]) * 100 + FullPoints(i + 1)

\* C13: a requirement whose name equals a candidate skill name ignoring case
\* is matched and counts with quality 100; a requirement matched otherwise
\* counts with quality 80: skillScore is the weighted percentage of these
\* credits.
C13_ExactMatchFullCredit ==
    SkillsCallReturned =>
        /\ \A i \in 1..Len(tool.jobRequirements) :
              HasNameIgnoringCase(tool.jobRequirements[i].skill)
                  => InMatchedSkills(tool.jobRequirements[i].skill)
        /\ tool.result.skillScore
              = MathRound(Rat(CreditPoints(1) * 100, FullPoints(1)))

\* a required skill matched fuzzily (80) beside a preferred skill matched by
\* name (100): (2 * 80 + 100) / 300
C13_Witness ==
    /\ SkillsCallReturned
    /\ Len(tool.jobRequirements) = 2
    /\ Len(tool.result.matchedSkills) = 2
    /\ ~HasNameIgnoringCase(tool.jobRequirements[1].skill)
    /\ HasNameIgnoringCase(tool.jobRequirements[2].skill)
    /\ tool.result.skillScore = 87

JavaScriptAgainstJS ==
    /\ tool.op = "calculateSkillScores"
    /\ Len(tool.jobRequirements) = 1
    /\ tool.jobRequirements[1].skill = JavaScript
    /\ tool.candidateSkills.isArray
    /\ Len(tool.candidateSkills.items) = 1
    /\ tool.candidateSkills.items[1].name = JS

\* C14: the lone requirement "JavaScript" against the lone candidate skill
\* "JS" is matched, by the variations dictionary and by neither name
\* equality, containment nor edit distance, and counts 80%.
C14_JavaScriptMatchesJS ==
    JavaScriptAgainstJS =>
        /\ ~tool.result.threw
        /\ Len(tool.result.matchedSkills) = 1
        /\ tool.result.matchedSkills[1].skill = JavaScript
        /\ tool.result.missingRequiredSkills = <<>>
        /\ tool.result.skillScore = 80
        /\ ~HasNameIgnoringCase(JavaScript)
        /\ ~Includes(Normalize(JavaScript), Normalize(JS))
        /\ ~Includes(Normalize(JS), Normalize(JavaScript))
        /\ levenshteinDistance(Normalize(JavaScript), Normalize(JS))
              > MaxLen(Normalize(JavaScript), Normalize(JS)) \div 5
        /\ \E r \in 1..Len(variations) :
              /\ \E k \in 1..Len(variations[r]) : variations[r][k] = Normalize(JS)
              /\ \E k \in 1..Len(variations[r]) :
                    variations[r][k] = Normalize(JavaScript)

C14_Witness == JavaScriptAgainstJS /\ tool.result.skillScore = 80

\* C15: every required requirement is in exactly one of matchedSkills and
\* missingRequiredSkills, no preferred requirement is in
\* missingRequiredSkills, and a requirement is in missingRequiredSkills iff it
\* is required and no candidate skill matches it exactly or fuzzily.
C15_MissingRequiredSkillsExact ==
    SkillsCallReturned =>
        /\ \A i \in 1..Len(tool.jobRequirements) :
              /\ tool.jobRequirements[i].required =>
                    (InMatchedSkills(tool.jobRequirements[i].skill)
                        <=> ~InMissingRequiredSkills(tool.jobRequirements[i].skill))
              /\ ~tool.jobRequirements[i].required =>
                    ~InMissingRequiredSkills(tool.jobRequirements[i].skill)
              /\ InMissingRequiredSkills(tool.jobRequirements[i].skill) <=>
                    (/\ tool.jobRequirements[i].required
                     /\ ~HasAnyMatch(tool.jobRequirements[i].skill))
        /\ \A k \in 1..Len(tool.result.missingRequiredSkills) :
              /\ \E i \in 1..Len(tool.jobRequirements) :
                    tool.jobRequirements[i].skill = tool.result.missingRequiredSkills[k]
              /\ \A l \in 1..Len(tool.result.missingRequiredSkills) :
                    l # k => tool.result.missingRequiredSkills[l]
                                 # tool.result.missingRequiredSkills[k]

\* a required skill missing beside a preferred skill that no skill matches
C15_Witness ==
    /\ SkillsCallReturned
    /\ Len(tool.candidateSkills.items) > 0
    /\ Len(tool.result.missingRequiredSkills) = 1
    /\ tool.result.matchedSkills = <<>>
    /\ \E i \in 1..Len(tool.jobRequirements) : ~tool.jobRequirements[i].required

\* C17: for a job with no requirements calculateSkillScores returns
\* skillScore = 50 and proficiencyScore = 50 and leaves matchedSkills and
\* missingRequiredSkills empty, whatever the candidate.
C17_NoRequirementsNeutral ==
    (tool.op = "calculateSkillScores" /\ Len(tool.jobRequirements) = 0) =>
        /\ ~tool.result.threw
        /\ tool.result.skillScore = 50
        /\ tool.result.proficiencyScore = 50
        /\ tool.result.matchedSkills = <<>>
        /\ tool.result.missingRequiredSkills = <<>>

\* the call for a candidate whose record has no skills array
C17_Witness ==
    /\ tool.op = "calculateSkillScores"
    /\ Len(tool.jobRequirements) = 0
    /\ ~tool.candidateSkills.isArray
    /\ tool.result.skillScore = 50

\* similarity times 100, or 50 when the similarity is absent
FormulaSimilarity ==
    IF tool.vectorScore = Undefined THEN Int2Rat(50)
    ELSE RMul(tool.vectorScore, Int2Rat(100))

FormulaSqlBonus == IF tool.sqlMatch THEN 100 ELSE 0

\* round(sum of factor score times weight / 100) on the factor scores returned
FormulaTotal ==
    MathRound(RDiv(
        RAdd(Int2Rat(tool.result.skillScore * tool.weights.skillMatch
                     + tool.result.proficiencyScore * tool.weights.skillProficiency
                     + tool.result.locationScore * tool.weights.locationMatch
                     + FormulaSqlBonus * tool.weights.sqlMatch),
             RAdd(RMul(tool.result.experienceScore,
                       Int2Rat(tool.weights.experienceMatch)),
                  RMul(FormulaSimilarity, Int2Rat(tool.weights.vectorSimilarity)))),
        Int2Rat(100)))

\* C16: the factor scores returned by calculateSophisticatedScore are those of
\* the four factor functions, the similarity times 100 (50 when absent) and
\* the SQL bonus 100 or 0; totalScore is round(weighted sum / 100) for
\* weights that sum to 100, and that value clamped to [0,100] for any
\* weights; the default weights are 35, 15, 20, 10, 15, 5.
C16_TotalScoreIsWeightedFormula ==
    (tool.op = "calculateSophisticatedScore" /\ ~tool.result.threw) =>
        /\ tool.result.skillScore
              = calculateSkillScores(tool.candidate.skills,
                                     tool.job.requirements).skillScore
        /\ tool.result.proficiencyScore
              = calculateSkillScores(tool.candidate.skills,
                                     tool.job.requirements).proficiencyScore
        /\ tool.result.experienceScore
              = calculateExperienceScore(tool.candidate.totalExperienceYears,
                                         tool.job.minExperienceYears,
                                         tool.job.requirements)
        /\ tool.result.locationScore
              = calculateLocationScore(tool.candidate.location, tool.job.location)
        /\ tool.result.vectorScore = FormulaSimilarity
        /\ tool.result.sqlBonus = FormulaSqlBonus
        /\ WeightSum(tool.weights) = 100 => tool.result.totalScore = FormulaTotal
        /\ tool.result.totalScore
              = IF FormulaTotal > 100 THEN 100
                ELSE IF FormulaTotal < 0 THEN 0 ELSE FormulaTotal
        /\ defaultWeights = [skillMatch |-> 35, skillProficiency |-> 15,
                             experienceMatch |-> 20, locationMatch |-> 10,
                             vectorSimilarity |-> 15, sqlMatch |-> 5]

\* a call with the default weights, no similarity and a SQL match
C16_Witness ==
    /\ tool.op = "calculateSophisticatedScore"
    /\ ~tool.result.threw
    /\ tool.weights = defaultWeights
    /\ tool.vectorScore = Undefined
    /\ tool.sqlMatch
    /\ tool.result.vectorScore = Int2Rat(50)
    /\ tool.result.totalScore = 78

\* the file at this position is accounted for exactly once
AccountedOnce(filePath) ==
    Cardinality({k \in 1..Len(ingest.candidateIds) :
                    ingest.candidateIds[k] = NewCandidateId(filePath)})
    + Cardinality({k \in 1..Len(ingest.failedFiles) :
                      ingest.failedFiles[k].filePath = filePath}) = 1

\* C19: once the PDF files of the folder are listed, the loop handles every
\* file whatever the earlier files did; on return success is true, every file
\* is in exactly one of candidateIds and failedFiles, and their lengths add
\* up to the number of files (the totalFiles loadFolder reports).
C19_FolderIngestionAccountsEveryFile ==
    /\ ingest.pc = "loop" =>
          /\ ingest.next <= ingest.pdfFiles
          /\ Len(ingest.candidateIds) + Len(ingest.failedFiles) = ingest.next - 1
    /\ (ingest.listed /\ ingest.pc \in {"returned", "reported"}) =>
          /\ ingest.success
          /\ Len(ingest.candidateIds) + Len(ingest.failedFiles) = ingest.pdfFiles
          /\ \A f \in 1..ingest.pdfFiles : AccountedOnce(f)
          /\ ingest.pc = "reported" =>
                (~ingest.threw /\ ingest.totalFiles = ingest.pdfFiles)

\* a folder whose first file threw and whose second returned success = false,
\* the third being ingested after them
C19_Witness ==
    /\ ingest.pc = "returned"
    /\ ingest.pdfFiles = 3
    /\ Len(ingest.failedFiles) = 2
    /\ ingest.failedFiles[1] = [filePath |-> 1, error |-> "threw"]
    /\ ingest.failedFiles[2] = [filePath |-> 2, error |-> "failed"]
    /\ ingest.candidateIds = <<NewCandidateId(3)>>

\* what an invocation computes from its own inputs when it runs alone
ScoredAlone(jobData, merged, full) ==
    ScoreLoop(merged, full, jobData, dualMatchScore, 1,
              [threw |-> FALSE, dualMatchCount |-> 0,
               candidates |-> <<>>, thrownAt |-> <<>>])

RankedAlone(jobData, merged, full) ==
    Slice(SortByScore(ScoredAlone(jobData, merged, full).candidates, 1, <<>>),
          maxCandidatesReturn)

\* C18: in every interleaving of two invocations, the merged map of each is
\* the merge of its own retrieval results, and its scores, outcome and ranked
\* list are those computed from its own job, map and fetched profiles and
\* the configuration.
C18_RunsShareNoState ==
    /\ candidateMap = IF Merged THEN MergeResults(sqlResults, vectorResults)
                      ELSE <<>>
    /\ Finished =>
          /\ candidates = ScoredAlone(job, candidateMap, fullCandidates).candidates
          /\ pc = "failed" <=> ScoredAlone(job, candidateMap, fullCandidates).threw
          /\ pc = "done" =>
                topCandidates = RankedAlone(job, candidateMap, fullCandidates)
    /\ other.candidateMap
          = IF other.pc \in {"fetch", "done", "failed"}
            THEN MergeResults(other.sqlResults, other.vectorResults) ELSE <<>>
    /\ other.pc \in {"done", "failed"} =>
          /\ other.candidates
                = ScoredAlone(other.job, other.candidateMap,
                              other.fullCandidates).candidates
          /\ other.pc = "failed"
                <=> ScoredAlone(other.job, other.candidateMap,
                                other.fullCandidates).threw
          /\ other.pc = "done" =>
                other.topCandidates
                    = RankedAlone(other.job, other.candidateMap,
                                  other.fullCandidates)

\* both invocations between merge and fetch at once, with different merged
\* maps that hold a common candidate, the first having merged last
C18_Witness ==
    /\ pc = "fetch" /\ other.pc = "fetch"
    /\ job # other.job
    /\ candidateMap # other.candidateMap
    /\ Len(candidateMap) = 2
    /\ \E i \in 1..Len(candidateMap), j \in 1..Len(other.candidateMap) :
          candidateMap[i][1] = other.candidateMap[j][1]

-----------------------------------------------------------------------------
(* Estimated and derived experience requirements *)

RECURSIVE SumOf(_, _)
SumOf(xs, i) == IF i > Len(xs) THEN Int2Rat(0) ELSE RAdd(xs[i], SumOf(xs, i + 1))

\* the mean of the minimums that the requirements state, 3 when none states one
MeanOfStatedMinimums(requirements) ==
    IF Len(DefinedMinYears(requirements, 1)) = 0 THEN Int2Rat(3)
    ELSE RDiv(SumOf(DefinedMinYears(requirements, 1), 1),
              Int2Rat(Len(DefinedMinYears(requirements, 1))))

\* C21: called without requiredYears, calculateExperienceScore applies its
\* curve to candidateYears minus the mean of the minimums stated by the
\* requirements, and to candidateYears minus 3 only when no requirement states
\* a minimum.
C21_EstimateIsMeanOfStatedMinimums ==
    (tool.op = "calculateExperienceScore" /\ tool.requiredYears = Undefined) =>
        tool.result = ExperienceCurve(RSub(tool.candidateYears,
                                           MeanOfStatedMinimums(tool.requirements)))

RECURSIVE LowestOf(_, _)
LowestOf(xs, i) == IF i >= Len(xs) THEN xs[i] ELSE RMin(xs[i], LowestOf(xs, i + 1))

\* some requirement of the job states a positive minimum
StatesPositiveMinimum(requirements) ==
    \E i \in 1..Len(requirements) :
        /\ requirements[i].minYearsExperience # Undefined
        /\ RLt(Int2Rat(0), requirements[i].minYearsExperience)

\* C22: in a run of findMatchingCandidates on a job with a requirement that
\* states a positive minimum, the lowest stated minimum is the
\* minExperienceYears of the structured query and of the job data handed to
\* the scorer.
C22_LowestMinimumIsPassedOn ==
    (pc # "idle" /\ StatesPositiveMinimum(job.requirements)) =>
        /\ sqlQuery.minExperienceYears
               = LowestOf(DefinedMinYears(job.requirements, 1), 1)
        /\ BuildJobMatchData(job).minExperienceYears
               = LowestOf(DefinedMinYears(job.requirements, 1), 1)

-----------------------------------------------------------------------------
(* Order of the matching methods *)

\* the first of the four methods by which a candidate skill name matches a
\* requirement: 1 exact name, 2 containment, 3 synonym table, 4 edit
\* distance; 5 when none does
MethodRank(reqName, candName) ==
    IF toLowerCase(reqName) = toLowerCase(candName) THEN 1
    ELSE IF \/ Includes(Normalize(toLowerCase(reqName)), Normalize(toLowerCase(candName)))
            \/ Includes(Normalize(toLowerCase(candName)), Normalize(toLowerCase(reqName)))
    THEN 2
    ELSE IF FuzzyNormalized(Normalize(toLowerCase(reqName)), Normalize(toLowerCase(candName)))
            /\ ~FuzzyNormalizedNoVariations(Normalize(toLowerCase(reqName)),
                                            Normalize(toLowerCase(candName)))
    THEN 3
    ELSE IF fuzzySkillMatch(toLowerCase(reqName), toLowerCase(candName)) THEN 4
    ELSE 5

\* the earliest method that succeeds for any of the candidate's skills
BestRank(reqName) ==
    CHOOSE r \in 1..5 :
        /\ r = 5 \/ \E k \in 1..Len(tool.candidateSkills.items) :
                        MethodRank(reqName, tool.candidateSkills.items[k].name) = r
        /\ \A k \in 1..Len(tool.candidateSkills.items) :
              MethodRank(reqName, tool.candidateSkills.items[k].name) >= r

\* C23: the candidate skill reported for a matched requirement (its level is
\* the candidateLevel of the matchedSkills entry) is one that matches by the
\* earliest method succeeding for any of the candidate's skills.
C23_ChosenSkillMatchesByEarliestMethod ==
    SkillsCallReturned =>
        \A e \in 1..Len(tool.result.matchedSkills) :
            \E k \in 1..Len(tool.candidateSkills.items) :
                /\ MethodRank(tool.result.matchedSkills[e].skill,
                              tool.candidateSkills.items[k].name)
                       = BestRank(tool.result.matchedSkills[e].skill)
                /\ tool.candidateSkills.items[k].level
                       = tool.result.matchedSkills[e].candidateLevel

-----------------------------------------------------------------------------
(* Weighted skill and proficiency percentages *)

\* the proficiency a requirement contributes: that of the candidate skill
\* chosen for it, 0 when it is unmatched
ProficiencyOf(req) ==
    IF InMatchedSkills(req.skill)
    THEN calculateProficiencyMatch(
             FindMatchedSkill(BuildSkillMap(tool.candidateSkills.items, <<>>, 1),
                              toLowerCase(req.skill))[1],
             req.minYearsExperience)
    ELSE Int2Rat(0)

RECURSIVE ProficiencyPoints(_)
ProficiencyPoints(i) ==
    IF i > Len(tool.jobRequirements) THEN Int2Rat(0)
    ELSE RAdd(RMul(Int2Rat(RequirementWeight(tool.jobRequirements[i])),
                   ProficiencyOf(tool.jobRequirements[i])),
              ProficiencyPoints(i + 1))

\* C24: over the requirements of the job, with weight 2 for required and 1
\* for preferred ones, skillScore is the rounded weighted percentage of the
\* credits (100 exact, 80 fuzzy, 20 unmatched preferred, 0 unmatched
\* required) and proficiencyScore the rounded weighted percentage of the
\* proficiency of the matched skills, unmatched requirements counting 0.
C24_WeightedPercentages ==
    SkillsCallReturned =>
        /\ tool.result.skillScore
              = MathRound(Rat(100 * CreditPoints(1), FullPoints(1)))
        /\ tool.result.proficiencyScore
              = MathRound(RDiv(RMul(Int2Rat(100), ProficiencyPoints(1)),
                               Int2Rat(FullPoints(1))))

\* a required requirement left unmatched beside a preferred one matched by
\* name: 100 of 300 points for the skill score
C24_Witness ==
    /\ SkillsCallReturned
    /\ Len(tool.jobRequirements) = 2
    /\ tool.jobRequirements[1].required
    /\ ~tool.jobRequirements[2].required
    /\ ~InMatchedSkills(tool.jobRequirements[1].skill)
    /\ HasNameIgnoringCase(tool.jobRequirements[2].skill)
    /\ tool.result.skillScore = 33
    /\ tool.result.proficiencyScore > 0

-----------------------------------------------------------------------------
(* Proficiency of a matched skill *)

\* 25, 50, 75, 100 for beginner, intermediate, advanced, expert
LevelScoreOf(level) ==
    CASE level = "beginner" -> Int2Rat(25)
      [] level = "intermediate" -> Int2Rat(50)
      [] level = "advanced" -> Int2Rat(75)
      [] level = "expert" -> Int2Rat(100)

\* a call of calculateProficiencyMatch for a skill whose years are known
ProficiencyCall ==
    /\ tool.op = "calculateProficiencyMatch"
    /\ tool.candidateSkill.yearsOfExperience # Undefined

\* C25: for a skill with known years and a requirement with a positive
\* minimum, calculateProficiencyMatch is half the level score plus half of
\* 100 * min(1, years / minimum), so that years above the minimum score as
\* years equal to it; for a requirement without a minimum it is the level
\* score.
C25_ProficiencyIsLevelAndCappedYears ==
    ProficiencyCall =>
        /\ (tool.requiredYears # Undefined /\ RLt(Int2Rat(0), tool.requiredYears)) =>
              /\ tool.result
                    = RAdd(RMul(Rat(1, 2), LevelScoreOf(tool.candidateSkill.level)),
                           RMul(Rat(1, 2),
                                RMul(Int2Rat(100),
                                     RMin(Int2Rat(1),
                                          RDiv(tool.candidateSkill.yearsOfExperience,
                                               tool.requiredYears)))))
              /\ RLe(tool.requiredYears, tool.candidateSkill.yearsOfExperience) =>
                    tool.result
                        = calculateProficiencyMatch(
                              [tool.candidateSkill EXCEPT
                                  !.yearsOfExperience = tool.requiredYears],
                              tool.requiredYears)
        /\ tool.requiredYears = Undefined =>
              tool.result = LevelScoreOf(tool.candidateSkill.level)

\* an advanced skill with more years than the requirement asks for
C25_Witness ==
    /\ ProficiencyCall
    /\ tool.candidateSkill.level = "advanced"
    /\ tool.requiredYears # Undefined
    /\ RLt(Int2Rat(0), tool.requiredYears)
    /\ RLt(tool.requiredYears, tool.candidateSkill.yearsOfExperience)
    /\ tool.result = Rat(175, 2)

-----------------------------------------------------------------------------
(* Experience statement of the reasoning *)

\* the statement that belongs to a difference to the required years
AlignmentOf(diff) ==
    IF RLe(Int2Rat(0), diff) /\ RLe(diff, Int2Rat(3)) THEN "meets requirement"
    ELSE IF RLt(Int2Rat(3), diff) THEN "overqualified"
    ELSE "below requirement"

\* C26: the reasoning of every breakdown has an experience statement, and it
\* is the one for candidateYears minus the required years that
\* calculateExperienceScore worked with (given, estimated from the
\* requirements, or 3).
C26_ReasoningStatesExperienceAlignment ==
    (tool.op = "calculateSophisticatedScore" /\ ~tool.result.threw) =>
        /\ Len(tool.result.reasoning.experience) = 1
        /\ tool.result.reasoning.experience[1].alignment
              = AlignmentOf(RSub(tool.candidate.totalExperienceYears,
                                 EffectiveRequiredYears(tool.job.minExperienceYears,
                                                        tool.job.requirements)))

-----------------------------------------------------------------------------
(* CV ingestion: status of the record, one record per email *)

\* the row is as this call last saved it (no other call has saved it since)
RowSavedBy(s) ==
    /\ agent.calls[s].candidate # 0
    /\ agent.rows[agent.calls[s].candidate].resumePath = agent.calls[s].file

\* the embedding of the ingestion that wrote the row is in the vector store
\* under the row's point id
EmbeddingStored(c, row) ==
    /\ row.qdrantPointId \in 1..Len(agent.points)
    /\ agent.points[row.qdrantPointId].candidateId = c
    /\ agent.points[row.qdrantPointId].resumePath = row.resumePath

C28_OneRecordPerEmail ==
    /\ \A c, e \in 1..Len(agent.rows) :
          (c # e /\ agent.rows[c].email # Null)
              => agent.rows[c].email # agent.rows[e].email
    /\ \A s \in Slots :
          (agent.calls[s].candidate # 0 /\ HasEmail(agent.calls[s].email))
              => agent.rows[agent.calls[s].candidate].email = agent.calls[s].email
    /\ \A s \in Slots :
          ~HasEmail(agent.calls[s].email)
              => /\ agent.calls[s].failedAt # "save"
                 /\ agent.calls[s].candidate # 0 => agent.calls[s].existing = 0

-----------------------------------------------------------------------------
(* Scores of candidates found by one source *)

\* a similarity score within [0,1]
UnitSimilarity(vectorScore) ==
    RLe(Int2Rat(0), vectorScore) /\ RLe(vectorScore, Int2Rat(1))

\* C29: with the default weights, a candidate found by exactly one source
\* (by the SQL filter without a similarity score, or by the vector search
\* with a similarity in [0,1]) scores below 100 in calculateSophisticatedScore,
\* and a candidate with exactly one match flag scores below 100 in
\* calculateFinalScore.
C29_SingleSourceBelowDualScore ==
    /\ (/\ tool.op = "calculateSophisticatedScore"
        /\ tool.weights = defaultWeights
        /\ ~tool.result.threw
        /\ tool.sqlMatch # (tool.vectorScore # Undefined)
        /\ tool.vectorScore # Undefined => UnitSimilarity(tool.vectorScore))
           => tool.result.totalScore < 100
    /\ (/\ tool.op = "calculateFinalScore"
        /\ tool.sqlMatch # tool.vectorMatch
        /\ tool.vectorScore # Undefined => UnitSimilarity(tool.vectorScore))
           => tool.result < 100

\* the best case of one source: every factor at 100, similarity 1, no SQL
\* match
C29_Witness ==
    /\ tool.op = "calculateSophisticatedScore"
    /\ tool.weights = defaultWeights
    /\ ~tool.sqlMatch
    /\ tool.vectorScore = Int2Rat(1)
    /\ tool.result.skillScore = 100
    /\ tool.result.proficiencyScore = 100
    /\ tool.result.experienceScore = Int2Rat(100)
    /\ tool.result.locationScore = 100
    /\ tool.result.totalScore = 95

-----------------------------------------------------------------------------
(* Search metadata *)

\* no candidate id occurs twice in the SQL results, nor in the vector results
NoRepeatedIds ==
    /\ \A a, b \in 1..Len(sqlResults) : a # b => sqlResults[a] # sqlResults[b]
    /\ \A a, b \in 1..Len(vectorResults) :
          a # b => vectorResults[a][1] # vectorResults[b][1]

\* the merged candidates found by both retrievals
DualEntries ==
    {i \in 1..Len(candidateMap) :
        candidateMap[i][2].sqlMatch /\ candidateMap[i][2].vectorMatch}

\* C30: in the metadata of a finished run, dualMatchCount is the number of
\* merged candidates with sqlMatch and vectorMatch, and when no id occurs
\* twice in the SQL results or in the vector results the number of merged
\* candidates is sqlMatchCount + vectorMatchCount - dualMatchCount.
C30_MetadataCountsAgree ==
    pc = "done" =>
        /\ metadata.dualMatchCount = Cardinality(DualEntries)
        /\ NoRepeatedIds
              => Len(candidateMap)
                     = metadata.sqlMatchCount + metadata.vectorMatchCount
                       - metadata.dualMatchCount

\* a run with a candidate found by both retrievals, one found by the SQL
\* filter only and one by the vector search only
C30_Witness ==
    /\ pc = "done"
    /\ NoRepeatedIds
    /\ metadata.sqlMatchCount = 2
    /\ metadata.vectorMatchCount = 2
    /\ metadata.dualMatchCount = 1
    /\ Len(candidateMap) = 3

====
